---- MODULE Spec2Model ----
(***************************************************************************)
(* Model of the revision controller of Primate-StuPy: the patch engine and *)
(* store adapter of github_api.py, the deployment poller of railway_api.py *)
(* and the iteration loop of main.py.                                      *)
(*                                                                         *)
(* A Python str is a sequence of one-character strings; "\n" is the line   *)
(* break.  A list of lines is a sequence of such strings.                  *)
(***************************************************************************)
EXTENDS Integers, Sequences, FiniteSets, TLC

VARIABLES
    \* the patch engine harness
    e_pc,        \* "idle" | "input" | "applied"
    e_fetched,   \* what get_file_content_and_sha returned for the file
    e_ops,       \* the operations of the file, in input order
    e_result,    \* _apply_operations_to_file(file, content, operations)
    e_again,     \* the same operations applied to e_result
    \* RailwayAPI.wait_for_deployment_completion and the platform
    p_pc,        \* "idle" | "start" | "search" | "track" | "done"
    p_now,       \* time.time() - start_time, in seconds
    p_last,      \* last_deployment
    p_result,    \* the value returned
    p_logq,      \* the log queries issued: <<kind, deployment id>>
    plat,        \* the platform's latest deployment
    p_seen,      \* history: what the status queries of the tracking loop showed,
                 \* whether the call went through the search loop, and the
                 \* latest deployment if it was terminal when the call began
    \* CodingAgent.run, GitHubAPI.apply_instructions and the store
    c_pc,        \* "idle" | "main" | "loop" | "generate" | "apply" | "commit" |
                 \* "syncwait" | "poll" | "review" | "reviewing" | "decide" |
                 \* "done" | "exited"
    iteration,
    instructions,
    revision_instructions,
    deployment_result,
    review,      \* the verdict review_deployment returned
    outcome,     \* "running" | "approved" | "exhausted" | "fatal" | "ended" |
                 \* "unconfigured" | "interrupted"
    store,       \* the repository: file -> Absent or Present(content)
    to_process,  \* the files of file_operations not yet processed
    final_files, \* process_file_operations' final_files, in dict order
    uploaded,    \* how many entries of final_files upload_final_files has done
    results,     \* upload_final_files' results
    io_log,      \* history: the store requests of the current batch:
                 \* <<"get", file, fetched>> and
                 \* <<method, file, sha, content, success>>
    snapshot,    \* history: the store when the current batch began
    calls,       \* history: how many batches, polls, reviews, proposals
    h_clean,     \* history: no error so far, every review said revise with operations
    oracle_ops,  \* the operations the oracle of this run composes its sets of
    writers,     \* how many commits other writers have made to the repository
    exit_code,   \* the exit status of the process; -1 while it runs
    h_first,     \* history: the first batch and the status its poll returned,
                 \* kept until the first review's verdict is acted on
    h_parsed,    \* history: the oracle's last response parsed as JSON
    review_args, \* the status and logs of the review request the oracle is
                 \* working on
    env,         \* what os.getenv gave Config for each required setting
    error_msg,   \* the message of the ValueError Config.validate raised
    signal,      \* "none" | "pending": a cancellation signal has been raised
    \* web_service.py: the job registry, the root logger and the job threads
    j_pc,        \* per thread: "idle" | "start" | "register" | "run" |
                 \* "cleanup" | "finished"
    j_id,        \* per thread: the job_id implement_code gave it (0: none yet)
    j_emitted,   \* per thread: how many log records its run has emitted
    jobs,        \* the registry: job_id -> [status, logs]
    root_handlers, \* the LogCaptureHandlers on the root logger, each
                 \* <<the thread that made it, its job_id>>
    j_now,       \* int(time.time())
    j_outcome    \* per thread: how the run of its agent ended ("none": it has
                 \* not returned)

evars == <<e_pc, e_fetched, e_ops, e_result, e_again>>
pvars == <<p_pc, p_now, p_last, p_result, p_logq, plat, p_seen>>
cvars == <<c_pc, iteration, instructions, revision_instructions, deployment_result,
           review, outcome, store, to_process, final_files, uploaded, results, io_log,
           snapshot, calls, h_clean, oracle_ops, writers, exit_code, h_first,
           h_parsed, review_args, env, error_msg, signal>>
jvars == <<j_pc, j_id, j_emitted, jobs, root_handlers, j_now, j_outcome>>

vars == <<e_pc, e_fetched, e_ops, e_result, e_again,
          p_pc, p_now, p_last, p_result, p_logq, plat, p_seen,
          c_pc, iteration, instructions, revision_instructions, deployment_result,
          review, outcome, store, to_process, final_files, uploaded, results, io_log,
          snapshot, calls, h_clean, oracle_ops, writers, exit_code, h_first,
          h_parsed, review_args, env, error_msg, signal,
          j_pc, j_id, j_emitted, jobs, root_handlers, j_now, j_outcome>>

(***************************************************************************)
(* Bounds of the input domains.                                            *)
(***************************************************************************)
MaxFileLines == 2
MaxLine == 3
MaxOps == 2
MaxDeployments == 2
MaxLatency == 10
MaxBatch == 2
MaxStoreLines == 2
MaxRecords == 2
MaxClock == 2

\* config.py
DEPLOYMENT_CHECK_INTERVAL == 30
MAX_DEPLOYMENT_WAIT == 600
MAX_ITERATIONS == 10

NL == "\n"

\* the line texts files are made of, and the contents operations carry
FileLineTexts == {<<>>, <<"a">>}
OpContents == {<<>>, <<"a">>, <<"b">>, <<"a", NL, "a">>}

(***************************************************************************)
(* str.split('\n') and '\n'.join(list)                                     *)
(***************************************************************************)
RECURSIVE split(_)
split(s) ==
    IF \A i \in 1..Len(s) : s[i] # NL
    THEN <<s>>
    ELSE LET i == CHOOSE j \in 1..Len(s) :
                      s[j] = NL /\ \A k \in 1..(j-1) : s[k] # NL
         IN <<SubSeq(s, 1, i-1)>> \o split(SubSeq(s, i+1, Len(s)))

RECURSIVE join(_)
join(ls) ==
    IF ls = <<>> THEN <<>>
    ELSE IF Len(ls) = 1 THEN ls[1]
    ELSE ls[1] \o <<NL>> \o join(Tail(ls))

(***************************************************************************)
(* github_api.py: the patch engine                                         *)
(***************************************************************************)
Absent == [exists |-> FALSE]
Present(c) == [exists |-> TRUE, content |-> c]

\* process_file_operations: a file that is not found is patched as ""
current_content(fetched) == IF fetched.exists THEN fetched.content ELSE <<>>

\* mutant: lines[line_num:line_num], the splice lands one line too low
apply_write_at_line_shifted(lines, line_num, content) ==
    IF line_num < 1 \/ line_num > Len(lines) + 1
    THEN lines
    ELSE LET at == IF line_num > Len(lines) THEN Len(lines) ELSE line_num
         IN SubSeq(lines, 1, at) \o split(content)
                \o SubSeq(lines, at + 1, Len(lines))

\* mutant: no range check, a line number past the end appends as the slice
\* assignment alone would
apply_write_at_line_unguarded(lines, line_num, content) ==
    IF line_num < 1
    THEN lines
    ELSE LET at == IF line_num - 1 > Len(lines) THEN Len(lines) ELSE line_num - 1
         IN SubSeq(lines, 1, at) \o split(content)
                \o SubSeq(lines, at + 1, Len(lines))

\* lines[line_num-1:line_num-1] = content.split('\n')
apply_write_at_line(lines, line_num, content) ==
    IF line_num < 1 \/ line_num > Len(lines) + 1
    THEN lines
    ELSE SubSeq(lines, 1, line_num - 1) \o split(content)
             \o SubSeq(lines, line_num, Len(lines))

\* mutant: the span is deleted without the exact-match check
apply_delete_at_line_unchecked(lines, line_num, content) ==
    IF line_num < 1 \/ line_num > Len(lines)
    THEN lines
    ELSE LET content_lines == split(content)
             end_line == line_num - 1 + Len(content_lines)
         IN IF end_line > Len(lines)
            THEN lines
            ELSE SubSeq(lines, 1, line_num - 1)
                     \o SubSeq(lines, end_line + 1, Len(lines))

\* del lines[line_num-1:end_line] when '\n'.join(lines[line_num-1:end_line]) == content
apply_delete_at_line(lines, line_num, content) ==
    IF line_num < 1 \/ line_num > Len(lines)
    THEN lines
    ELSE LET content_lines == split(content)
             end_line == line_num - 1 + Len(content_lines)
         IN IF end_line > Len(lines)
            THEN lines
            ELSE IF join(SubSeq(lines, line_num, end_line)) = content
                 THEN SubSeq(lines, 1, line_num - 1)
                          \o SubSeq(lines, end_line + 1, Len(lines))
                 ELSE lines

\* mutant: the operations are sorted by ascending line number
insert_asc(sorted, op) ==
    LET k == Cardinality({i \in 1..Len(sorted) : sorted[i].line <= op.line})
    IN SubSeq(sorted, 1, k) \o <<op>> \o SubSeq(sorted, k + 1, Len(sorted))

\* mutant: an unstable sort that puts an operation before those of equal line
insert_desc_unstable(sorted, op) ==
    LET k == Cardinality({i \in 1..Len(sorted) : sorted[i].line > op.line})
    IN SubSeq(sorted, 1, k) \o <<op>> \o SubSeq(sorted, k + 1, Len(sorted))

\* all_line_ops.sort(key=lambda x: x.get('line', 0), reverse=True): the sort
\* is stable, so operations with equal line numbers keep their list order
insert_desc(sorted, op) ==
    LET k == Cardinality({i \in 1..Len(sorted) : sorted[i].line >= op.line})
    IN SubSeq(sorted, 1, k) \o <<op>> \o SubSeq(sorted, k + 1, Len(sorted))

RECURSIVE sort_desc(_)
sort_desc(ops) ==
    IF ops = <<>> THEN <<>>
    ELSE insert_desc(sort_desc(SubSeq(ops, 1, Len(ops) - 1)), ops[Len(ops)])

\* key in operation
has_key(op, key) == key \in DOMAIN op

\* _apply_operations_to_file raises KeyError: op['operation'] of the four
\* selections, final_op['content'], or operation['line'] and
\* operation['content'] in the loop over all_line_ops
apply_raises(operations) ==
    \/ \E i \in 1..Len(operations) : ~has_key(operations[i], "operation")
    \/ /\ \A i \in 1..Len(operations) : has_key(operations[i], "operation")
       /\ LET kinds(ks) == SelectSeq(operations, LAMBDA op : op.operation \in ks)
              write_ops == kinds({"write"})
              delete_ops == kinds({"delete"})
              line_ops == kinds({"write_at_line", "delete_at_line"})
          IN IF write_ops # <<>>
             THEN ~has_key(write_ops[Len(write_ops)], "content")
             ELSE IF delete_ops # <<>> THEN FALSE
             ELSE \E i \in 1..Len(line_ops) :
                      ~has_key(line_ops[i], "line") \/ ~has_key(line_ops[i], "content")

of_kind(ops, kind) == SelectSeq(ops, LAMBDA op : op.operation = kind)

\* mutant: the first write wins
first_op(write_ops) == write_ops[1]

\* final_op = write_ops[-1]
final_op(write_ops) == write_ops[Len(write_ops)]

\* the body of "for operation in all_line_ops"
apply_line_op(lines, operation) ==
    IF operation.operation = "write_at_line"
    THEN apply_write_at_line(lines, operation.line, operation.content)
    ELSE IF operation.operation = "delete_at_line"
    THEN apply_delete_at_line(lines, operation.line, operation.content)
    ELSE lines

RECURSIVE apply_line_ops(_, _)
apply_line_ops(lines, ops) ==
    IF ops = <<>> THEN lines
    ELSE apply_line_ops(apply_line_op(lines, Head(ops)), Tail(ops))

\* mutant: delete_at_line_ops + write_at_line_ops
all_line_ops_deletes_first(operations) ==
    sort_desc(of_kind(operations, "delete_at_line")
                  \o of_kind(operations, "write_at_line"))

\* all_line_ops = write_at_line_ops + delete_at_line_ops, then sorted
all_line_ops(operations) ==
    sort_desc(of_kind(operations, "write_at_line")
                  \o of_kind(operations, "delete_at_line"))

\* mutant: the content is split even when it is empty
lines_of_always_split(content) == split(content)

\* lines = content.split('\n') if content else []
lines_of(content) == IF content # <<>> THEN split(content) ELSE <<>>

apply_operations_to_file(content, operations) ==
    LET lines == lines_of(content)
        write_ops == of_kind(operations, "write")
        delete_ops == of_kind(operations, "delete")
    IN IF write_ops # <<>> THEN final_op(write_ops).content
       ELSE IF delete_ops # <<>> THEN <<>>
       ELSE join(apply_line_ops(lines, all_line_ops(operations)))

(***************************************************************************)
(* Input domains of the patch engine harness                               *)
(***************************************************************************)
RECURSIVE SeqsUpTo(_, _)
SeqsUpTo(S, n) ==
    IF n = 0 THEN {<<>>}
    ELSE LET shorter == SeqsUpTo(S, n - 1)
         IN shorter \cup {Append(q, x) : q \in shorter, x \in S}

FileContents == {join(ls) : ls \in SeqsUpTo(FileLineTexts, MaxFileLines)}
Fetched == {Absent} \cup {Present(c) : c \in FileContents}

WriteOp(f, c) == [operation |-> "write", file |-> f, line |-> 0, content |-> c]
DeleteOp(f) == [operation |-> "delete", file |-> f, line |-> 0, content |-> <<>>]
WriteAtLineOp(f, n, c) ==
    [operation |-> "write_at_line", file |-> f, line |-> n, content |-> c]
DeleteAtLineOp(f, n, c) ==
    [operation |-> "delete_at_line", file |-> f, line |-> n, content |-> c]

\* an operation of a kind the engine does not know
UnknownOp(f) == [operation |-> "rename", file |-> f, line |-> 0, content |-> <<>>]

\* the operation without one of its keys
Without(op, key) == [k \in DOMAIN op \ {key} |-> op[k]]

FileOps(f) ==
    {WriteOp(f, c) : c \in OpContents} \cup {DeleteOp(f)}
        \cup {WriteAtLineOp(f, n, c) : n \in 0..MaxLine, c \in OpContents}
        \cup {DeleteAtLineOp(f, n, c) : n \in 0..MaxLine, c \in OpContents}

EngineOpSeqs == SeqsUpTo(FileOps("f1"), MaxOps) \ {<<>>}

(***************************************************************************)
(* The parts of the state a specification does not run stay idle.          *)
(***************************************************************************)
NoDeployment == [exists |-> FALSE]
Deployment(i, st) == [exists |-> TRUE, id |-> i, status |-> st]
NoReturn == [returned |-> FALSE]
NothingSeen ==
    [pinned_terminal |-> FALSE, other_terminal |-> FALSE, searched |-> FALSE,
     old |-> NoDeployment]

PollerIdle ==
    /\ p_pc = "idle"
    /\ p_now = 0
    /\ p_last = NoDeployment
    /\ p_result = NoReturn
    /\ p_logq = {}
    /\ plat = NoDeployment
    /\ p_seen = NothingSeen

Files == {"f1", "f2"}
NoBatch == [instructions |-> <<>>, snapshot |-> <<>>, io_log |-> <<>>,
            status |-> "none"]
NoVerdict == [status |-> "none", instructions |-> <<>>]
NoArgs == [deployment_status |-> "none"]
NoError == [raised |-> FALSE]

\* required_vars, in the order of the dict
RequiredVars ==
    <<"DEEPSEEK_API_KEY", "GITHUB_TOKEN", "GITHUB_USERNAME", "GITHUB_REPO",
      "RAILWAY_API_TOKEN", "RAILWAY_TARGET_PROJECT_ID">>
RequiredNames == {RequiredVars[i] : i \in 1..Len(RequiredVars)}

\* os.getenv: None for a variable the environment does not have, otherwise
\* its value, which may be the empty string
NoValue == [present |-> FALSE]
Value(v) == [present |-> TRUE, value |-> v]
EnvValues == {NoValue, Value(""), Value("x")}
AllSet == [v \in RequiredNames |-> Value("x")]

NoCalls == [batches |-> 0, polls |-> 0, reviews |-> 0, proposals |-> 0]

Threads == {1, 2}

JobsIdle ==
    /\ j_pc = [t \in Threads |-> "idle"]
    /\ j_id = [t \in Threads |-> 0]
    /\ j_emitted = [t \in Threads |-> 0]
    /\ jobs = <<>>
    /\ root_handlers = {}
    /\ j_now = 1
    /\ j_outcome = [t \in Threads |-> "none"]

ControllerIdle ==
    /\ c_pc = "idle"
    /\ iteration = 1
    /\ instructions = <<>>
    /\ revision_instructions = <<>>
    /\ deployment_result = NoReturn
    /\ review = NoVerdict
    /\ outcome = "running"
    /\ store = [f \in Files |-> Absent]
    /\ to_process = <<>>
    /\ final_files = <<>>
    /\ uploaded = 0
    /\ results = <<>>
    /\ io_log = <<>>
    /\ snapshot = [f \in Files |-> Absent]
    /\ calls = NoCalls
    /\ h_clean = TRUE
    /\ oracle_ops = {}
    /\ writers = 0
    /\ exit_code = -1
    /\ h_first = NoBatch
    /\ h_parsed = TRUE
    /\ review_args = NoArgs
    /\ env = AllSet
    /\ error_msg = NoError
    /\ signal = "none"

(***************************************************************************)
(* The patch engine harness: draw a fetched file and its operations, apply *)
(* them, and apply them again to the result.                               *)
(***************************************************************************)
NoResult == [done |-> FALSE]
Result(c) == [done |-> TRUE, content |-> c]

EngineInit ==
    /\ e_pc = "input"
    /\ e_fetched \in Fetched
    /\ e_ops \in EngineOpSeqs
    /\ e_result = NoResult
    /\ e_again = NoResult
    /\ PollerIdle
    /\ ControllerIdle
    /\ JobsIdle

\* the operations applied to the fetched content, and again to the result
EngineApply ==
    /\ e_pc = "input"
    /\ LET final_content ==
               apply_operations_to_file(current_content(e_fetched), e_ops)
       IN /\ e_result' = Result(final_content)
          /\ e_again' = Result(apply_operations_to_file(final_content, e_ops))
    /\ e_pc' = "applied"
    /\ UNCHANGED <<e_fetched, e_ops>>
    /\ UNCHANGED <<pvars, cvars, jvars>>

EngineNext == EngineApply

SpecEngine == EngineInit /\ [][EngineNext]_vars

(***************************************************************************)
(* railway_api.py: the deployment platform and the poller                  *)
(***************************************************************************)
ActiveStatuses == {"BUILDING", "DEPLOYING"}
PlatformStatuses == ActiveStatuses \cup {"SUCCESS", "FAILED", "CRASHED"}

\* the platform moves a deployment forward, never back
NextStatuses(st) ==
    IF st = "BUILDING" THEN {"DEPLOYING", "FAILED"}
    ELSE IF st = "DEPLOYING" THEN {"SUCCESS", "CRASHED"}
    ELSE {}

\* get_latest_deployment: the latest deployment, or None when there is none
\* or when the request, the GraphQL call or the response shape fails
get_latest_deployment == {plat, NoDeployment}

\* a status query takes some time
QueryLatencies == {0, MaxLatency}

\* get_deployment_logs / get_build_logs: the formatted log lines, or the
\* error text the function returns instead of raising
FetchedLogs(kind, id) ==
    {[source |-> "platform", kind |-> kind, id |-> id, ok |-> ok] : ok \in BOOLEAN}
Placeholder(text) == [source |-> "placeholder", text |-> text]

\* mutant: any status of the pinned deployment ends the wait
status_is_anything(status) == TRUE

\* status in ['SUCCESS', 'FAILED', 'CRASHED', 'NONE']
status_is_terminal(status) == status \in {"SUCCESS", "FAILED", "CRASHED", "NONE"}

\* the result returned when no deployment appeared within the timeout
no_deployment_result ==
    [returned |-> TRUE, has_id |-> FALSE, status |-> "TIMEOUT",
     deployment_logs |-> Placeholder("No deployment started within timeout period"),
     build_logs |-> Placeholder("No build logs available")]

\* the result returned when the tracking loop runs out of time
timeout_result ==
    [returned |-> TRUE, has_id |-> FALSE, status |-> "TIMEOUT",
     deployment_logs |-> Placeholder("Deployment monitoring timeout"),
     build_logs |-> Placeholder("No build logs available")]

completed_result(current_deployment, deployment_logs, build_logs) ==
    [returned |-> TRUE, has_id |-> TRUE, id |-> current_deployment.id,
     status |-> current_deployment.status,
     deployment_logs |-> deployment_logs, build_logs |-> build_logs]

\* mutant: a loop turn still begins when the elapsed time equals the timeout
within_wait_inclusive(now) == now <= MAX_DEPLOYMENT_WAIT

\* while time.time() - start_time < timeout, with timeout = MAX_DEPLOYMENT_WAIT
within_wait(now) == now < MAX_DEPLOYMENT_WAIT

EngineIdle ==
    /\ e_pc = "idle"
    /\ e_fetched = Absent
    /\ e_ops = <<>>
    /\ e_result = NoResult
    /\ e_again = NoResult

PollerInit ==
    /\ p_pc = "start"
    /\ p_now = 0
    /\ p_last = NoDeployment
    /\ p_result = NoReturn
    /\ p_logq = {}
    /\ plat \in {NoDeployment} \cup {Deployment(1, st) : st \in PlatformStatuses}
    /\ p_seen = [NothingSeen EXCEPT
                     !.old = IF plat.exists /\ plat.status \notin ActiveStatuses
                             THEN plat ELSE NoDeployment]
    /\ EngineIdle
    /\ ControllerIdle
    /\ JobsIdle

\* a new deployment becomes the latest one
PlatformCreate ==
    /\ p_pc \in {"start", "search", "track"}
    /\ LET n == IF plat.exists THEN plat.id + 1 ELSE 1
       IN /\ n <= MaxDeployments
          /\ plat' = Deployment(n, "BUILDING")
    /\ UNCHANGED <<p_pc, p_now, p_last, p_result, p_logq, p_seen>>
    /\ UNCHANGED <<evars, cvars, jvars>>

PlatformAdvance ==
    /\ p_pc \in {"start", "search", "track"}
    /\ plat.exists
    /\ \E st \in NextStatuses(plat.status) : plat' = Deployment(plat.id, st)
    /\ UNCHANGED <<p_pc, p_now, p_last, p_result, p_logq, p_seen>>
    /\ UNCHANGED <<evars, cvars, jvars>>

\* start_time = time.time(); last_deployment = self.get_latest_deployment()
PollerStart ==
    /\ p_pc = "start"
    /\ \E response \in get_latest_deployment, d \in QueryLatencies :
          /\ p_last' = response
          /\ p_now' = d
          /\ p_pc' = IF response.exists THEN "track" ELSE "search"
    /\ UNCHANGED <<p_result, p_logq, plat, p_seen>>
    /\ UNCHANGED <<evars, cvars, jvars>>

\* one turn of the loop that waits for a first deployment to appear
PollerSearch ==
    /\ p_pc = "search"
    /\ within_wait(p_now)
    /\ \E current_deployment \in get_latest_deployment, d \in QueryLatencies :
          IF current_deployment.exists
          THEN /\ p_last' = current_deployment
               /\ p_now' = p_now + d
               /\ p_pc' = "track"
          ELSE /\ p_now' = p_now + d + DEPLOYMENT_CHECK_INTERVAL
               /\ UNCHANGED <<p_last, p_pc>>
    /\ p_seen' = [p_seen EXCEPT !.searched = TRUE]
    /\ UNCHANGED <<p_result, p_logq, plat>>
    /\ UNCHANGED <<evars, cvars, jvars>>

\* the search loop ran out of time: if not last_deployment: return TIMEOUT
PollerSearchTimeout ==
    /\ p_pc = "search"
    /\ ~within_wait(p_now)
    /\ p_result' = no_deployment_result
    /\ p_pc' = "done"
    /\ UNCHANGED <<p_now, p_last, p_logq, plat, p_seen>>
    /\ UNCHANGED <<evars, cvars, jvars>>

\* what this status query showed, for the properties
Seen(current_deployment) ==
    [pinned_terminal |->
        \/ p_seen.pinned_terminal
        \/ /\ current_deployment.exists
           /\ current_deployment.id = p_last.id
           /\ current_deployment.status \notin ActiveStatuses,
     other_terminal |->
        \/ p_seen.other_terminal
        \/ /\ current_deployment.exists
           /\ current_deployment.id # p_last.id
           /\ current_deployment.status \notin ActiveStatuses
           /\ p_last.status \in ActiveStatuses,
     searched |-> p_seen.searched,
     old |-> p_seen.old]

\* one turn of the tracking loop
PollerTrack ==
    /\ p_pc = "track"
    /\ within_wait(p_now)
    /\ \E current_deployment \in get_latest_deployment, d \in QueryLatencies :
          /\ p_seen' = Seen(current_deployment)
          /\ IF /\ current_deployment.exists
                /\ current_deployment.id = p_last.id
                /\ status_is_terminal(current_deployment.status)
             THEN \E deployment_logs \in FetchedLogs("deployment", current_deployment.id),
                     build_logs \in FetchedLogs("build", current_deployment.id) :
                     /\ p_result' = completed_result(current_deployment,
                                                     deployment_logs, build_logs)
                     /\ p_logq' = p_logq \cup {<<"deployment", current_deployment.id>>,
                                              <<"build", current_deployment.id>>}
                     /\ p_now' = p_now + d
                     /\ p_pc' = "done"
             ELSE /\ p_now' = p_now + d + DEPLOYMENT_CHECK_INTERVAL
                  /\ UNCHANGED <<p_result, p_logq, p_pc>>
    /\ UNCHANGED <<p_last, plat>>
    /\ UNCHANGED <<evars, cvars, jvars>>

\* the tracking loop ran out of time
PollerTrackTimeout ==
    /\ p_pc = "track"
    /\ ~within_wait(p_now)
    /\ p_result' = timeout_result
    /\ p_pc' = "done"
    /\ UNCHANGED <<p_now, p_last, p_logq, plat, p_seen>>
    /\ UNCHANGED <<evars, cvars, jvars>>

PollerNext ==
    \/ PlatformCreate
    \/ PlatformAdvance
    \/ PollerStart
    \/ PollerSearch
    \/ PollerSearchTimeout
    \/ PollerTrack
    \/ PollerTrackTimeout

SpecPoller == PollerInit /\ [][PollerNext]_vars

\* the statements of wait_for_deployment_completion run one after the other
\* and every request to the platform comes back
PollerSteps ==
    \/ PollerStart
    \/ PollerSearch
    \/ PollerSearchTimeout
    \/ PollerTrack
    \/ PollerTrackTimeout

SpecPollerFair == PollerInit /\ [][PollerNext]_vars /\ WF_vars(PollerSteps)

(***************************************************************************)
(* main.py and github_api.py: the controller, the adapter and the store    *)
(***************************************************************************)
\* what the oracle of a run may put in its operation sets
OracleOpsBasic ==
    {WriteOp("f1", <<"a">>), WriteAtLineOp("f1", 1, <<"b">>),
     DeleteAtLineOp("f1", 1, <<"a">>), WriteAtLineOp("f2", 1, <<"b">>)}

\* whole-file removal, and a whole-file write of nothing
OracleOpsRemoval ==
    {DeleteOp("f1"), WriteOp("f1", <<>>), WriteOp("f1", <<"b">>)}

\* operations of an unknown kind and operations that lack a key, next to a
\* valid one
OracleOpsMalformed ==
    {WriteOp("f2", <<"b">>), UnknownOp("f1"),
     Without(WriteOp("f1", <<"b">>), "file"),
     Without(WriteAtLineOp("f1", 1, <<"b">>), "line"),
     Without(WriteAtLineOp("f1", 1, <<"b">>), "content")}

OracleAlphabets == {OracleOpsBasic, OracleOpsRemoval, OracleOpsMalformed}

ops_of(ins, f) == SelectSeq(ins, LAMBDA op : has_key(op, "file") /\ op.file = f)

\* process_file_operations raises KeyError while it groups: instruction['file']
grouping_raises(ins) == \E i \in 1..Len(ins) : ~has_key(ins[i], "file")

\* the oracle keeps the files of the repository short
KeepsStoreSmall(ins) ==
    \A f \in Files :
        \/ apply_raises(ops_of(ins, f))
        \/ Len(split(apply_operations_to_file(current_content(store[f]),
                                              ops_of(ins, f)))) <= MaxStoreLines

OracleOpSets == {ins \in SeqsUpTo(oracle_ops, MaxBatch) : KeepsStoreSmall(ins)}

\* mutant: one entry per operation instead of one per file
files_in_order_each(ins) == [i \in 1..Len(ins) |-> ins[i].file]

\* the keys of file_operations, in the order the dict got them
RECURSIVE files_in_order(_)
files_in_order(ins) ==
    IF ins = <<>> THEN <<>>
    ELSE LET before == files_in_order(SubSeq(ins, 1, Len(ins) - 1))
             f == ins[Len(ins)].file
         IN IF \E i \in 1..Len(before) : before[i] = f
            THEN before
            ELSE Append(before, f)

\* get_file_content_and_sha: (content, sha), or (None, None) when the file
\* is not found or the request fails; the sha is the digest of the content
get_file_content_and_sha(f) == {store[f], Absent}

\* what wait_for_deployment_completion can hand to the controller
PollerResults ==
    {no_deployment_result, timeout_result}
        \cup {completed_result(Deployment(1, st),
                               [source |-> "platform", kind |-> "deployment",
                                id |-> 1, ok |-> TRUE],
                               [source |-> "platform", kind |-> "build",
                                id |-> 1, ok |-> TRUE]) :
                 st \in {"SUCCESS", "FAILED", "CRASHED"}}

\* mutant: an empty operation set is applied like any other
has_instructions_always(ins) == TRUE

\* if instructions:
has_instructions(ins) == ins # <<>>

\* mutant: the loop admits one iteration more
loop_continues_once_more(i) == i <= MAX_ITERATIONS + 1

\* while iteration <= Config.MAX_ITERATIONS
loop_continues(i) == i <= MAX_ITERATIONS

\* mutant: the revision is counted twice
next_iteration_skips(i) == i + 2

\* iteration += 1
next_iteration(i) == i + 1

\* mutant: an upload may start as soon as one file has been processed
some_file_processed == uploaded < Len(final_files)

\* apply_instructions calls upload_final_files after process_file_operations
\* has returned
processing_done == to_process = <<>>

\* mutant: the limit is reported from the last iteration on
after_loop_early(how, i) == IF i >= MAX_ITERATIONS THEN "exhausted" ELSE how

\* after the loop: if iteration > Config.MAX_ITERATIONS, "Maximum iterations
\* reached" is reported, however the loop was left
after_loop(how, i) == IF i > MAX_ITERATIONS THEN "exhausted" ELSE how

\* mutant: the error is swallowed and the iteration goes on to the wait
Break_swallowed(how) ==
    /\ c_pc' = "syncwait"
    /\ outcome' = outcome
    /\ instructions' = <<>>
    /\ revision_instructions' = <<>>
    /\ deployment_result' = NoReturn
    /\ results' = <<>>
    /\ h_first' = NoBatch
    /\ h_parsed' = TRUE
    /\ review_args' = NoArgs

\* the loop is left: run's locals are gone when it returns
Break(how) ==
    /\ c_pc' = "done"
    /\ outcome' = after_loop(how, iteration)
    /\ instructions' = <<>>
    /\ revision_instructions' = <<>>
    /\ deployment_result' = NoReturn
    /\ results' = <<>>
    /\ h_first' = NoBatch
    /\ h_parsed' = TRUE
    /\ review_args' = NoArgs

Init ==
    /\ c_pc = "main"
    /\ iteration = 1
    /\ instructions = <<>>
    /\ revision_instructions = <<>>
    /\ deployment_result = NoReturn
    /\ review = NoVerdict
    /\ outcome = "running"
    /\ store \in [Files -> {Absent, Present(<<"a">>)}]
    /\ to_process = <<>>
    /\ final_files = <<>>
    /\ uploaded = 0
    /\ results = <<>>
    /\ io_log = <<>>
    /\ snapshot = store
    /\ calls = NoCalls
    /\ h_clean = TRUE
    /\ oracle_ops \in OracleAlphabets
    /\ writers = 0
    /\ exit_code = -1
    /\ h_first = NoBatch
    /\ h_parsed = TRUE
    /\ review_args = NoArgs
    /\ env \in [RequiredNames -> EnvValues]
    /\ error_msg = NoError
    /\ signal = "none"
    /\ EngineIdle
    /\ PollerIdle
    /\ JobsIdle

\* if value:
truthy(value) == value.present /\ value.value # ""

\* mutant: validation stops at the first setting it misses
missing_first(e) ==
    LET all == SelectSeq(RequiredVars, LAMBDA var : ~truthy(e[var]))
    IN IF all = <<>> THEN <<>> ELSE <<all[1]>>

\* missing = [var for var, value in required_vars.items() if not value]
missing(e) == SelectSeq(RequiredVars, LAMBDA var : ~truthy(e[var]))

\* main: agent = CodingAgent() succeeds and agent.run begins
MainStart ==
    /\ c_pc = "main"
    /\ missing(env) = <<>>
    /\ c_pc' = "loop"
    /\ UNCHANGED <<iteration, instructions, revision_instructions,
                   deployment_result, outcome, store, to_process, final_files,
                   uploaded, results, io_log, snapshot, calls, h_clean>>
    /\ UNCHANGED <<h_first, review, oracle_ops, writers, exit_code, h_parsed, review_args, env, error_msg, signal, evars, pvars, jvars>>

\* main: Config.validate raises ValueError in CodingAgent(), before the three
\* adapters are made; sys.exit(1)
MainConfigFails ==
    /\ c_pc = "main"
    /\ missing(env) # <<>>
    /\ error_msg' = [raised |-> TRUE,
                     text |-> "Missing environment variables: ",
                     names |-> missing(env)]
    /\ c_pc' = "exited"
    /\ outcome' = "unconfigured"
    /\ exit_code' = 1
    /\ UNCHANGED <<iteration, instructions, revision_instructions,
                   deployment_result, store, to_process, final_files,
                   uploaded, results, io_log, snapshot, calls, h_clean>>
    /\ UNCHANGED <<h_first, review, oracle_ops, writers, h_parsed, review_args, env, signal, evars, pvars, jvars>>

\* main: agent.run returned, whichever way its loop was left; main falls off
\* its end and the interpreter exits with status 0
MainExit ==
    /\ c_pc = "done"
    /\ c_pc' = "exited"
    /\ exit_code' = 0
    /\ UNCHANGED <<iteration, instructions, revision_instructions,
                   deployment_result, outcome, store, to_process, final_files,
                   uploaded, results, io_log, snapshot, calls, h_clean>>
    /\ UNCHANGED <<h_first, review, oracle_ops, writers, h_parsed, review_args, env, error_msg, signal, evars, pvars, jvars>>

\* mutant: every iteration asks the oracle for a proposal
is_first_always(i) == TRUE

\* if iteration == 1
is_first(i) == i = 1

\* the loop test and get_entire_codebase succeed; iteration 1 goes on to the
\* oracle, a later one takes the revision's operations
LoopEnter ==
    /\ c_pc = "loop"
    /\ loop_continues(iteration)
    /\ IF is_first(iteration)
       THEN /\ c_pc' = "generate"
            /\ UNCHANGED instructions
       ELSE /\ c_pc' = "apply"
            /\ instructions' = revision_instructions
    /\ UNCHANGED <<iteration, revision_instructions, deployment_result, outcome,
                   store, to_process, final_files, uploaded, results, io_log,
                   snapshot, calls, h_clean>>
    /\ UNCHANGED <<h_first, review, oracle_ops, writers, exit_code, h_parsed, review_args, env, error_msg, signal, evars, pvars, jvars>>

\* get_entire_codebase raises at the head of an iteration
LoopFetchFails ==
    /\ c_pc = "loop"
    /\ loop_continues(iteration)
    /\ Break("fatal")
    /\ h_clean' = FALSE
    /\ UNCHANGED <<iteration, store, to_process, final_files, uploaded, io_log, snapshot, calls>>
    /\ UNCHANGED <<review, oracle_ops, writers, exit_code, env, error_msg, signal, evars, pvars, jvars>>

\* the loop ends by its test, not by a break; what is reported is decided by
\* the test after the loop
LoopExhausted ==
    /\ c_pc = "loop"
    /\ ~loop_continues(iteration)
    /\ Break("ended")
    /\ UNCHANGED <<iteration, store, to_process, final_files, uploaded, io_log, snapshot, calls, h_clean>>
    /\ UNCHANGED <<review, oracle_ops, writers, exit_code, env, error_msg, signal, evars, pvars, jvars>>

\* what call_api returns: a text json.loads raises JSONDecodeError on, or a
\* text that is the JSON of a value
Unparseable == [parses |-> FALSE]
Json(value) == [parses |-> TRUE, value |-> value]

\* _parse_instructions: json.loads(cleaned.strip()), [] on JSONDecodeError
parse_instructions(response) ==
    IF response.parses THEN response.value ELSE <<>>

ProposalResponses == {Unparseable} \cup {Json(ins) : ins \in OracleOpSets}

\* generate_initial_code: call_api, then _parse_instructions
Generate ==
    /\ c_pc = "generate"
    /\ \E response \in ProposalResponses :
          /\ instructions' = parse_instructions(response)
          /\ h_parsed' = response.parses
          /\ h_clean' = (h_clean /\ parse_instructions(response) # <<>>)
    /\ calls' = [calls EXCEPT !.proposals = @ + 1]
    /\ c_pc' = "apply"
    /\ UNCHANGED <<iteration, revision_instructions, deployment_result, outcome,
                   store, to_process, final_files, uploaded, results, io_log,
                   snapshot>>
    /\ UNCHANGED <<h_first, review, oracle_ops, writers, exit_code, review_args, env, error_msg, signal, evars, pvars, jvars>>

\* generate_initial_code raises
GenerateFails ==
    /\ c_pc = "generate"
    /\ Break("fatal")
    /\ calls' = [calls EXCEPT !.proposals = @ + 1]
    /\ h_clean' = FALSE
    /\ UNCHANGED <<iteration, store, to_process, final_files, uploaded, io_log, snapshot>>
    /\ UNCHANGED <<review, oracle_ops, writers, exit_code, env, error_msg, signal, evars, pvars, jvars>>

\* if instructions: apply_instructions(instructions) groups them by file
ApplyStart ==
    /\ c_pc = "apply"
    /\ has_instructions(instructions)
    /\ ~grouping_raises(instructions)
    /\ to_process' = files_in_order(instructions)
    /\ final_files' = <<>>
    /\ uploaded' = 0
    /\ results' = <<>>
    /\ io_log' = <<>>
    /\ snapshot' = store
    /\ calls' = [calls EXCEPT !.batches = @ + 1]
    /\ c_pc' = "commit"
    /\ UNCHANGED <<iteration, instructions, revision_instructions,
                   deployment_result, outcome, store, h_clean>>
    /\ UNCHANGED <<h_first, review, oracle_ops, writers, exit_code, h_parsed, review_args, env, error_msg, signal, evars, pvars, jvars>>

\* apply_instructions raises while it groups the operations by file; run's
\* except clause breaks
ApplyRaises ==
    /\ c_pc = "apply"
    /\ has_instructions(instructions)
    /\ grouping_raises(instructions)
    /\ Break("fatal")
    /\ calls' = [calls EXCEPT !.batches = @ + 1]
    /\ h_clean' = FALSE
    /\ UNCHANGED <<iteration, store, to_process, final_files, uploaded, io_log, snapshot>>
    /\ UNCHANGED <<review, oracle_ops, writers, exit_code, env, error_msg, signal, evars, pvars, jvars>>

\* else: "No operations to apply", break
ApplyNothing ==
    /\ c_pc = "apply"
    /\ ~has_instructions(instructions)
    /\ Break("fatal")
    /\ UNCHANGED <<iteration, store, to_process, final_files, uploaded, io_log, snapshot, calls, h_clean>>
    /\ UNCHANGED <<review, oracle_ops, writers, exit_code, env, error_msg, signal, evars, pvars, jvars>>

\* one turn of process_file_operations' loop over file_operations
ProcessFile ==
    /\ c_pc = "commit"
    /\ to_process # <<>>
    /\ LET file == Head(to_process)
           operations == ops_of(instructions, file)
       IN \E fetched \in get_file_content_and_sha(file) :
             /\ ~apply_raises(operations)
             /\ final_files' =
                    Append(final_files,
                           [file |-> file,
                            content |-> apply_operations_to_file(
                                            current_content(fetched), operations),
                            fetched |-> fetched,
                            operations |-> operations])
             /\ io_log' = Append(io_log, <<"get", file, fetched>>)
    /\ to_process' = Tail(to_process)
    /\ UNCHANGED <<c_pc, iteration, instructions, revision_instructions,
                   deployment_result, outcome, store, uploaded, results,
                   snapshot, calls, h_clean>>
    /\ UNCHANGED <<h_first, review, oracle_ops, writers, exit_code, h_parsed, review_args, env, error_msg, signal, evars, pvars, jvars>>

\* process_file_operations has read a file and _apply_operations_to_file
\* raises on its operations; run's except clause breaks
ProcessRaises ==
    /\ c_pc = "commit"
    /\ to_process # <<>>
    /\ apply_raises(ops_of(instructions, Head(to_process)))
    /\ \E fetched \in get_file_content_and_sha(Head(to_process)) :
          io_log' = Append(io_log, <<"get", Head(to_process), fetched>>)
    /\ Break("fatal")
    /\ h_clean' = FALSE
    /\ UNCHANGED <<iteration, store, to_process, final_files, uploaded, snapshot, calls>>
    /\ UNCHANGED <<review, oracle_ops, writers, exit_code, env, error_msg, signal, evars, pvars, jvars>>

\* mutant: every entry is sent as a PUT of its content
upload_request_always_put(entry) ==
    [method |-> "put", file |-> entry.file, sha |-> entry.fetched,
     content |-> entry.content,
     op_desc |-> IF entry.fetched.exists THEN "update" ELSE "create"]

\* mutant: content for a file without a sha is not sent
upload_request_skips_create(entry) ==
    IF entry.fetched.exists
    THEN [method |-> IF entry.content = <<>> THEN "delete" ELSE "put",
          file |-> entry.file, sha |-> entry.fetched, content |-> entry.content,
          op_desc |-> IF entry.content = <<>> THEN "delete" ELSE "update"]
    ELSE [method |-> "none", file |-> entry.file, sha |-> Absent,
          content |-> entry.content, op_desc |-> "delete (skip)"]

\* mutant: the payload carries the sha the file has at upload time
upload_request_current_sha(entry) ==
    IF entry.content = <<>>
    THEN [method |-> IF store[entry.file].exists THEN "delete" ELSE "none",
          file |-> entry.file, sha |-> store[entry.file], content |-> <<>>,
          op_desc |-> IF store[entry.file].exists THEN "delete" ELSE "delete (skip)"]
    ELSE [method |-> "put", file |-> entry.file, sha |-> store[entry.file],
          content |-> entry.content,
          op_desc |-> IF store[entry.file].exists THEN "update" ELSE "create"]

\* upload_final_files' choice for one entry of final_files: the request, the
\* sha of its payload (Absent: the payload has none) and op_desc
upload_request(entry) ==
    IF entry.content = <<>>
    THEN IF entry.fetched.exists
         THEN [method |-> "delete", file |-> entry.file, sha |-> entry.fetched,
               content |-> <<>>, op_desc |-> "delete"]
         ELSE [method |-> "none", file |-> entry.file, sha |-> Absent,
               content |-> <<>>, op_desc |-> "delete (skip)"]
    ELSE [method |-> "put", file |-> entry.file, sha |-> entry.fetched,
          content |-> entry.content,
          op_desc |-> IF entry.fetched.exists THEN "update" ELSE "create"]

\* the store accepts an update or a delete that carries the digest of the
\* content it holds, and a create of a file it does not hold
store_accepts(request) ==
    IF request.sha.exists
    THEN store[request.file] = request.sha
    ELSE ~store[request.file].exists

\* response.status_code in [200, 201] or [200, 204]; an accepted request can
\* still fail on the way
Responses(request) == IF store_accepts(request) THEN {TRUE, FALSE} ELSE {FALSE}

\* mutant: a request that failed is reported like one that succeeded
UploadResult_all_ok(success, op_desc, file) ==
    [success |-> TRUE, op_desc |-> op_desc, file |-> file]

\* results.append of the mark, op_desc and the file name
UploadResult(success, op_desc, file) ==
    [success |-> success, op_desc |-> op_desc, file |-> file]

\* one turn of upload_final_files' loop over final_files
UploadFile ==
    /\ c_pc = "commit"
    /\ processing_done
    /\ uploaded < Len(final_files)
    /\ LET request == upload_request(final_files[uploaded + 1])
       IN IF request.method = "none"
          THEN /\ results' = Append(results,
                                UploadResult(FALSE, request.op_desc, request.file))
               /\ UNCHANGED <<store, io_log>>
          ELSE \E success \in Responses(request) :
                  /\ store' = IF ~success THEN store
                              ELSE IF request.method = "delete"
                              THEN [store EXCEPT ![request.file] = Absent]
                              ELSE [store EXCEPT ![request.file] =
                                                     Present(request.content)]
                  /\ results' = Append(results,
                                   UploadResult(success, request.op_desc,
                                                request.file))
                  /\ io_log' = Append(io_log,
                                  <<request.method, request.file, request.sha,
                                    request.content, success>>)
    /\ uploaded' = uploaded + 1
    /\ UNCHANGED <<c_pc, iteration, instructions, revision_instructions,
                   deployment_result, outcome, to_process, final_files,
                   snapshot, calls, h_clean>>
    /\ UNCHANGED <<h_first, review, oracle_ops, writers, exit_code, h_parsed, review_args, env, error_msg, signal, evars, pvars, jvars>>

\* what another writer of the repository may leave in a file
OtherContents == {Absent, Present(<<"a">>)}

\* another writer (a concurrent job, a person) commits, once in a run, to a
\* file the batch has read and not yet written
OtherWriter ==
    /\ c_pc = "commit"
    /\ processing_done
    /\ writers = 0
    /\ \E k \in (uploaded + 1)..Len(final_files) :
          \E theirs \in OtherContents \ {store[final_files[k].file]} :
              store' = [store EXCEPT ![final_files[k].file] = theirs]
    /\ writers' = writers + 1
    /\ UNCHANGED <<c_pc, iteration, instructions, revision_instructions,
                   deployment_result, outcome, to_process, final_files,
                   uploaded, results, io_log, snapshot, calls, h_clean>>
    /\ UNCHANGED <<h_first, review, oracle_ops, exit_code, h_parsed, review_args, env, error_msg, signal, evars, pvars, jvars>>

\* requests.put or requests.delete raises; run's except clause breaks
UploadRaises ==
    /\ c_pc = "commit"
    /\ processing_done
    /\ uploaded < Len(final_files)
    /\ upload_request(final_files[uploaded + 1]).method # "none"
    /\ Break("fatal")
    /\ h_clean' = FALSE
    /\ UNCHANGED <<iteration, store, to_process, final_files, uploaded, io_log, snapshot, calls>>
    /\ UNCHANGED <<review, oracle_ops, writers, exit_code, env, error_msg, signal, evars, pvars, jvars>>

\* apply_instructions returns its results (instructions and
\* revision_instructions are not read again before they are assigned)
CommitDone ==
    /\ c_pc = "commit"
    /\ to_process = <<>>
    /\ uploaded = Len(final_files)
    /\ c_pc' = "syncwait"
    /\ final_files' = <<>>
    /\ uploaded' = 0
    /\ io_log' = <<>>
    /\ snapshot' = store
    /\ instructions' = <<>>
    /\ revision_instructions' = <<>>
    /\ h_first' = IF iteration = 1
                  THEN [instructions |-> instructions, snapshot |-> snapshot,
                        io_log |-> io_log, status |-> "none"]
                  ELSE h_first
    /\ UNCHANGED <<iteration,
                   deployment_result, outcome, store, to_process, results,
                   calls, h_clean>>
    /\ UNCHANGED <<review, oracle_ops, writers, exit_code, h_parsed, review_args, env, error_msg, signal, evars, pvars, jvars>>

\* time.sleep(sync_wait)
SyncWait ==
    /\ c_pc = "syncwait"
    /\ c_pc' = "poll"
    /\ results' = <<>>
    /\ UNCHANGED <<iteration, instructions, revision_instructions,
                   deployment_result, outcome, store, to_process, final_files,
                   uploaded, io_log, snapshot, calls, h_clean>>
    /\ UNCHANGED <<h_first, review, oracle_ops, writers, exit_code, h_parsed, review_args, env, error_msg, signal, evars, pvars, jvars>>

\* deployment_result = self.railway.wait_for_deployment_completion()
Poll ==
    /\ c_pc = "poll"
    /\ deployment_result' \in PollerResults
    /\ calls' = [calls EXCEPT !.polls = @ + 1]
    /\ c_pc' = "review"
    /\ UNCHANGED <<iteration, instructions, revision_instructions, outcome,
                   store, to_process, final_files, uploaded, results, io_log,
                   snapshot, h_clean>>
    /\ UNCHANGED <<h_first, review, oracle_ops, writers, exit_code, h_parsed, review_args, env, error_msg, signal, evars, pvars, jvars>>

\* wait_for_deployment_completion raises
PollFails ==
    /\ c_pc = "poll"
    /\ Break("fatal")
    /\ calls' = [calls EXCEPT !.polls = @ + 1]
    /\ h_clean' = FALSE
    /\ UNCHANGED <<iteration, store, to_process, final_files, uploaded, io_log, snapshot>>
    /\ UNCHANGED <<review, oracle_ops, writers, exit_code, env, error_msg, signal, evars, pvars, jvars>>

\* the JSON objects the oracle answers a review with: approved, revise with
\* an operation set (empty too) or without the key, or another status
Verdicts ==
    {[status |-> "approved", instructions |-> <<>>],
     [status |-> "unknown", instructions |-> <<>>],
     [status |-> "revise"]}
        \cup {[status |-> "revise", instructions |-> ins] : ins \in OracleOpSets}

ReviewResponses == {Unparseable} \cup {Json(verdict) : verdict \in Verdicts}

FailedToParse ==
    [status |-> "revise", reason |-> "Failed to parse response",
     instructions |-> <<>>]

\* mutant: a response that does not parse counts as an approval
review_deployment_lenient(response) ==
    IF response.parses THEN response.value
    ELSE [status |-> "approved", reason |-> "Failed to parse response"]

\* review_deployment: json.loads(response.strip()); on JSONDecodeError the
\* verdict is revise without operations
review_deployment(response) ==
    IF response.parses THEN response.value ELSE FailedToParse

\* review.get('instructions', [])
verdict_instructions(verdict) ==
    IF has_key(verdict, "instructions") THEN verdict.instructions ELSE <<>>

\* mutant: a revise verdict always starts another iteration
has_revision_always(ins) == TRUE

\* if revision_instructions:
has_revision(ins) == ins # <<>>

\* mutant: a poll that timed out is not put before the oracle
review_arguments_no_timeout(result) ==
    IF result.status = "TIMEOUT" THEN NoArgs
    ELSE [deployment_status |-> result.status,
          deployment_logs |-> result.deployment_logs,
          build_logs |-> result.build_logs]

\* the keyword arguments review_deployment gets from deployment_result
review_arguments(result) ==
    [deployment_status |-> result.status,
     deployment_logs |-> result.deployment_logs,
     build_logs |-> result.build_logs]

\* the fresh codebase is fetched and review_deployment is called with the
\* status and the logs of deployment_result (which is not read again before
\* the next poll assigns it)
ReviewCall ==
    /\ c_pc = "review"
    /\ review_args' = review_arguments(deployment_result)
    /\ calls' = [calls EXCEPT !.reviews = @ + 1]
    /\ h_first' = IF iteration = 1
                  THEN [h_first EXCEPT !.status = deployment_result.status]
                  ELSE h_first
    /\ deployment_result' = NoReturn
    /\ c_pc' = "reviewing"
    /\ UNCHANGED <<iteration, instructions, revision_instructions, outcome, store, to_process, final_files,
                   uploaded, results, io_log, snapshot, h_clean>>
    /\ UNCHANGED <<review, oracle_ops, writers, exit_code, h_parsed, env, error_msg, signal, evars, pvars, jvars>>

\* review = self.deepseek.review_deployment(...): the oracle's response
Review ==
    /\ c_pc = "reviewing"
    /\ \E response \in ReviewResponses :
          /\ review' = review_deployment(response)
          /\ h_parsed' = response.parses
    /\ review_args' = NoArgs
    /\ c_pc' = "decide"
    /\ UNCHANGED <<iteration, instructions, revision_instructions, deployment_result, outcome,
                   store, to_process, final_files,
                   uploaded, results, io_log, snapshot, calls, h_clean>>
    /\ UNCHANGED <<h_first, oracle_ops, writers, exit_code, env, error_msg, signal, evars, pvars, jvars>>

\* review.get('status') == 'approved': break
ReviewApproved ==
    /\ c_pc = "decide"
    /\ review.status = "approved"
    /\ Break("approved")
    /\ review' = NoVerdict
    /\ h_clean' = FALSE
    /\ UNCHANGED <<iteration, store, to_process, final_files, uploaded, io_log,
                   snapshot, calls>>
    /\ UNCHANGED <<oracle_ops, writers, exit_code, env, error_msg, signal, evars, pvars, jvars>>

\* 'revise' with operations: iteration += 1
ReviewRevise ==
    /\ c_pc = "decide"
    /\ review.status = "revise"
    /\ has_revision(verdict_instructions(review))
    /\ revision_instructions' = verdict_instructions(review)
    /\ h_parsed' = TRUE
    /\ iteration' = next_iteration(iteration)
    /\ deployment_result' = NoReturn
    /\ review' = NoVerdict
    /\ h_first' = NoBatch
    /\ c_pc' = "loop"
    /\ UNCHANGED <<instructions, outcome, store, to_process, final_files,
                   uploaded, results, io_log, snapshot, calls, h_clean>>
    /\ UNCHANGED <<oracle_ops, writers, exit_code, review_args, env, error_msg, signal, evars, pvars, jvars>>

\* 'revise' without operations, or a status that is neither: break
ReviewStops ==
    /\ c_pc = "decide"
    /\ \/ /\ review.status = "revise"
          /\ ~has_revision(verdict_instructions(review))
       \/ review.status \notin {"approved", "revise"}
    /\ Break("fatal")
    /\ review' = NoVerdict
    /\ h_clean' = FALSE
    /\ UNCHANGED <<iteration, store, to_process, final_files, uploaded, io_log,
                   snapshot, calls>>
    /\ UNCHANGED <<oracle_ops, writers, exit_code, env, error_msg, signal, evars, pvars, jvars>>

\* get_entire_codebase raises before the oracle is called, or
\* review_deployment raises
ReviewFails ==
    /\ c_pc \in {"review", "reviewing"}
    /\ Break("fatal")
    /\ h_clean' = FALSE
    /\ UNCHANGED <<iteration, store, to_process, final_files, uploaded, io_log, snapshot, calls>>
    /\ UNCHANGED <<review, oracle_ops, writers, exit_code, env, error_msg, signal, evars, pvars, jvars>>

Next ==
    \/ MainStart
    \/ MainConfigFails
    \/ MainExit
    \/ LoopEnter
    \/ LoopFetchFails
    \/ LoopExhausted
    \/ Generate
    \/ GenerateFails
    \/ ApplyStart
    \/ ApplyRaises
    \/ ApplyNothing
    \/ ProcessFile
    \/ ProcessRaises
    \/ UploadFile
    \/ OtherWriter
    \/ UploadRaises
    \/ CommitDone
    \/ SyncWait
    \/ Poll
    \/ PollFails
    \/ ReviewCall
    \/ Review
    \/ ReviewApproved
    \/ ReviewRevise
    \/ ReviewStops
    \/ ReviewFails

Spec == Init /\ [][Next]_vars

\* run is between its first and its last statement
Running ==
    c_pc \in {"loop", "generate", "apply", "commit", "syncwait", "poll",
              "review", "reviewing", "decide"}

\* a cancellation signal is raised while the run is in progress; nothing in
\* run reads it
SignalRaised ==
    /\ Running
    /\ signal = "none"
    /\ signal' = "pending"
    /\ UNCHANGED <<c_pc, iteration, instructions, revision_instructions,
                   deployment_result, review, outcome, store, to_process,
                   final_files, uploaded, results, io_log, snapshot, calls,
                   h_clean, oracle_ops, writers, exit_code, h_first, h_parsed,
                   review_args, env, error_msg>>
    /\ UNCHANGED <<evars, pvars, jvars>>

\* the signal is SIGINT: KeyboardInterrupt is raised in the statement the
\* process is executing; it is not an Exception, so neither run's nor main's
\* except clause catches it and the interpreter ends the process
Interrupt ==
    /\ Running
    /\ signal = "pending"
    /\ c_pc' = "exited"
    /\ outcome' = "interrupted"
    /\ exit_code' \in {1, 130}
    /\ instructions' = <<>>
    /\ revision_instructions' = <<>>
    /\ deployment_result' = NoReturn
    /\ review' = NoVerdict
    /\ review_args' = NoArgs
    /\ to_process' = <<>>
    /\ final_files' = <<>>
    /\ uploaded' = 0
    /\ results' = <<>>
    /\ io_log' = <<>>
    /\ snapshot' = store
    /\ h_first' = NoBatch
    /\ h_parsed' = TRUE
    /\ UNCHANGED <<iteration, store, calls, h_clean, oracle_ops, writers, env,
                   error_msg, signal>>
    /\ UNCHANGED <<evars, pvars, jvars>>

NextCancel ==
    \/ Next
    \/ SignalRaised
    \/ Interrupt

SpecCancel == Init /\ [][NextCancel]_vars

(***************************************************************************)
(* web_service.py: jobs, each a thread that runs the agent, the registry   *)
(* and the log capture                                                     *)
(***************************************************************************)
JobsInit ==
    /\ JobsIdle
    /\ EngineIdle
    /\ PollerIdle
    /\ ControllerIdle

\* a log record, marked with the thread whose run emitted it
Record(t, n) == [thread |-> t, n |-> n]

RECURSIVE times(_, _)
times(record, n) == IF n = 0 THEN <<>> ELSE <<record>> \o times(record, n - 1)

\* the root logger hands a record to every handler it has, whichever thread
\* logged it; LogCaptureHandler.emit appends it to jobs[self.job_id]['logs']
\* if self.job_id in jobs
emit(registry, handlers, record) ==
    [id \in DOMAIN registry |->
        [registry[id] EXCEPT
            !.logs = @ \o times(record,
                                Cardinality({h \in handlers : h[2] = id}))]]

\* implement_code: job_id = f"job_{int(time.time())}", and the thread starts
implement_code(t) ==
    /\ j_pc[t] = "idle"
    /\ j_id' = [j_id EXCEPT ![t] = j_now]
    /\ j_pc' = [j_pc EXCEPT ![t] = "start"]
    /\ UNCHANGED <<j_emitted, jobs, root_handlers, j_now, j_outcome>>
    /\ UNCHANGED <<evars, pvars, cvars>>

\* run_agent_job: root_logger.addHandler(LogCaptureHandler(job_id))
JobAddHandler(t) ==
    /\ j_pc[t] = "start"
    /\ root_handlers' = root_handlers \cup {<<t, j_id[t]>>}
    /\ j_pc' = [j_pc EXCEPT ![t] = "register"]
    /\ UNCHANGED <<j_id, j_emitted, jobs, j_now, j_outcome>>
    /\ UNCHANGED <<evars, pvars, cvars>>

\* run_agent_job: jobs[job_id] = {'status': 'processing', ..., 'logs': ''}
JobRegister(t) ==
    /\ j_pc[t] = "register"
    /\ jobs' = (j_id[t] :> [status |-> "processing", logs |-> <<>>]) @@ jobs
    /\ j_pc' = [j_pc EXCEPT ![t] = "run"]
    /\ UNCHANGED <<j_id, j_emitted, root_handlers, j_now, j_outcome>>
    /\ UNCHANGED <<evars, pvars, cvars>>

\* agent.run(instruction) logs a record
JobEmit(t) ==
    /\ j_pc[t] = "run"
    /\ j_emitted[t] < MaxRecords
    /\ jobs' = emit(jobs, root_handlers, Record(t, j_emitted[t] + 1))
    /\ j_emitted' = [j_emitted EXCEPT ![t] = @ + 1]
    /\ UNCHANGED <<j_pc, j_id, root_handlers, j_now, j_outcome>>
    /\ UNCHANGED <<evars, pvars, cvars>>

\* the ways CodingAgent.run ends its loop; it returns None after each
RunEnds == {"approved", "exhausted", "fatal"}

\* agent.run has returned: jobs[job_id].update({'status': 'completed', ...})
JobComplete(t) ==
    /\ j_pc[t] = "run"
    /\ j_emitted[t] >= 1
    /\ \E how \in RunEnds :
          /\ j_outcome' = [j_outcome EXCEPT ![t] = how]
          /\ jobs' = [jobs EXCEPT ![j_id[t]].status = "completed"]
    /\ j_pc' = [j_pc EXCEPT ![t] = "cleanup"]
    /\ UNCHANGED <<j_id, j_emitted, root_handlers, j_now>>
    /\ UNCHANGED <<evars, pvars, cvars>>

\* run_agent_job: root_logger.removeHandler(log_handler)
JobRemoveHandler(t) ==
    /\ j_pc[t] = "cleanup"
    /\ root_handlers' = root_handlers \ {<<t, j_id[t]>>}
    /\ j_pc' = [j_pc EXCEPT ![t] = "finished"]
    /\ UNCHANGED <<j_id, j_emitted, jobs, j_now, j_outcome>>
    /\ UNCHANGED <<evars, pvars, cvars>>

\* CodingAgent() or agent.run raises: the error is logged, the entry is set
\* to 'error' and every LogCaptureHandler with this job_id is removed
JobFails(t) ==
    /\ j_pc[t] = "run"
    /\ j_emitted[t] < MaxRecords
    /\ jobs' = [emit(jobs, root_handlers, Record(t, j_emitted[t] + 1))
                    EXCEPT ![j_id[t]].status = "error"]
    /\ j_emitted' = [j_emitted EXCEPT ![t] = @ + 1]
    /\ root_handlers' = {h \in root_handlers : h[2] # j_id[t]}
    /\ j_pc' = [j_pc EXCEPT ![t] = "finished"]
    /\ UNCHANGED <<j_id, j_now, j_outcome>>
    /\ UNCHANGED <<evars, pvars, cvars>>

\* a second passes
Tick ==
    /\ j_now < MaxClock
    /\ j_now' = j_now + 1
    /\ UNCHANGED <<j_pc, j_id, j_emitted, jobs, root_handlers, j_outcome>>
    /\ UNCHANGED <<evars, pvars, cvars>>

JobsNext ==
    \/ \E t \in Threads : implement_code(t)
    \/ \E t \in Threads : JobAddHandler(t)
    \/ \E t \in Threads : JobRegister(t)
    \/ \E t \in Threads : JobEmit(t)
    \/ \E t \in Threads : JobComplete(t)
    \/ \E t \in Threads : JobRemoveHandler(t)
    \/ \E t \in Threads : JobFails(t)
    \/ Tick

SpecJobs == JobsInit /\ [][JobsNext]_vars

(***************************************************************************)
(* Properties of the patch engine                                          *)
(***************************************************************************)
e_content == current_content(e_fetched)
e_lines == lines_of(e_content)
IsLineOp(op) == op.operation \in {"write_at_line", "delete_at_line"}
OnlyLineOps(ops) == \A i \in 1..Len(ops) : IsLineOp(ops[i])
LastWriteIndex(ops) ==
    CHOOSE i \in 1..Len(ops) :
        /\ ops[i].operation = "write"
        /\ \A j \in (i+1)..Len(ops) : ops[j].operation # "write"

\* C1: when the operations of a file contain a Write, the engine returns
\* exactly the content of the last Write in input order, whatever the other
\* operations are and wherever they stand, and applying the same operations
\* to that result returns it again.
C1_LastWriteWins ==
    (e_pc = "applied" /\ \E i \in 1..Len(e_ops) : e_ops[i].operation = "write")
        => /\ e_result.content = e_ops[LastWriteIndex(e_ops)].content
           /\ e_again = e_result

C1_Witness ==
    /\ e_pc = "applied"
    /\ Len(e_ops) = 2
    /\ e_ops[1].operation = "write" /\ e_ops[2].operation = "write"
    /\ e_ops[1].content # e_ops[2].content
    /\ e_result.content = e_ops[2].content
    /\ e_again = e_result

\* the operations of ops, by index, in the order the claim's law applies
\* them: line number descending; at equal line number inserts before
\* deletes; at equal line number and kind, input order
Before(ops, i, j) ==
    \/ ops[i].line > ops[j].line
    \/ /\ ops[i].line = ops[j].line
       /\ ops[i].operation = "write_at_line"
       /\ ops[j].operation = "delete_at_line"
    \/ /\ ops[i].line = ops[j].line
       /\ ops[i].operation = ops[j].operation
       /\ i < j

RECURSIVE OneAtATime(_, _, _)
OneAtATime(lines, ops, todo) ==
    IF todo = {} THEN lines
    ELSE LET i == CHOOSE k \in todo : \A m \in todo \ {k} : Before(ops, k, m)
         IN OneAtATime(apply_line_op(lines, ops[i]), ops, todo \ {i})

Reordered(ops) ==
    {[i \in 1..Len(ops) |-> ops[p[i]]] :
        p \in {q \in [1..Len(ops) -> 1..Len(ops)] :
                  \A a, b \in 1..Len(ops) : a # b => q[a] # q[b]}}

DistinctLines(ops) ==
    \A i, j \in 1..Len(ops) : i # j => ops[i].line # ops[j].line

\* C2 as stated: with only InsertAtLine and DeleteAtLine operations the
\* result is that of applying them one at a time from the highest line
\* number to the lowest, and does not depend on the order they were given in.
C2_AnyOrderSameResult ==
    (e_pc = "applied" /\ OnlyLineOps(e_ops))
        => \A r \in Reordered(e_ops) :
               apply_operations_to_file(e_content, r) = e_result.content

\* C2 as amended: the result is that of applying the operations to the line
\* sequence of the original content one at a time by descending line number,
\* those of equal line number inserts before deletes and otherwise in input
\* order; it is independent of the input order when the line numbers are
\* pairwise distinct.
C2_DescendingOrderLaw ==
    (e_pc = "applied" /\ OnlyLineOps(e_ops))
        => /\ e_result.content = join(OneAtATime(e_lines, e_ops, 1..Len(e_ops)))
           /\ DistinctLines(e_ops)
                => \A r \in Reordered(e_ops) :
                       apply_operations_to_file(e_content, r) = e_result.content

C2_Witness ==
    /\ e_pc = "applied"
    /\ Len(e_ops) = 2 /\ OnlyLineOps(e_ops)
    /\ e_ops[1].line < e_ops[2].line
    /\ e_ops[1].operation = "delete_at_line"
    /\ e_ops[2].operation = "write_at_line"
    /\ e_result.content # e_content
    /\ e_result.content #
           join(apply_line_op(apply_line_op(e_lines, e_ops[1]), e_ops[2]))

\* the lines a DeleteAtLine aims at are exactly the lines of its content
ExactMatch(lines, op) ==
    LET want == split(op.content)
    IN /\ op.line >= 1
       /\ op.line + Len(want) - 1 <= Len(lines)
       /\ \A i \in 1..Len(want) : lines[op.line + i - 1] = want[i]

\* C3: a single DeleteAtLine whose target span is not exactly its content
\* returns the input unchanged: no line removed, added or altered.
C3_MismatchKeepsContent ==
    (/\ e_pc = "applied"
     /\ Len(e_ops) = 1
     /\ e_ops[1].operation = "delete_at_line"
     /\ ~ExactMatch(e_lines, e_ops[1]))
        => /\ e_result.content = e_content
           /\ apply_delete_at_line(e_lines, e_ops[1].line, e_ops[1].content) = e_lines

C3_Witness ==
    /\ e_pc = "applied"
    /\ Len(e_ops) = 1
    /\ e_ops[1].operation = "delete_at_line"
    /\ e_ops[1].line = 1
    /\ Len(e_lines) = 2
    /\ Len(split(e_ops[1].content)) = 2
    /\ ~ExactMatch(e_lines, e_ops[1])
    /\ e_result.content = e_content

\* C4: on a file of n >= 1 lines a single InsertAtLine at line n+1 yields
\* the original lines followed by the inserted ones, and at line 1 the
\* inserted lines followed by the original ones; every original line is
\* kept, in its order.
C4_AppendPrepend ==
    (/\ e_pc = "applied"
     /\ Len(e_ops) = 1
     /\ e_ops[1].operation = "write_at_line"
     /\ Len(e_lines) >= 1)
        => /\ e_ops[1].line = Len(e_lines) + 1
                => /\ e_result.content = e_content \o <<NL>> \o e_ops[1].content
                   /\ split(e_result.content) = e_lines \o split(e_ops[1].content)
           /\ e_ops[1].line = 1
                => /\ e_result.content = e_ops[1].content \o <<NL>> \o e_content
                   /\ split(e_result.content) = split(e_ops[1].content) \o e_lines

C4_Witness ==
    /\ e_pc = "applied"
    /\ Len(e_ops) = 1
    /\ e_ops[1].operation = "write_at_line"
    /\ Len(e_lines) = 2
    /\ e_ops[1].line = 3
    /\ Len(split(e_ops[1].content)) = 2
    /\ Len(split(e_result.content)) = 4

(***************************************************************************)
(* Properties of the deployment poller                                     *)
(***************************************************************************)
\* C7: when no status query of the wait shows the tracked deployment in a
\* terminal status (no deployment ever appears, every query fails, or the
\* deployment stays active), the poller returns a result whose status is
\* TIMEOUT; it returns a value, it does not raise.
C7_TimeoutIsAResult ==
    (p_pc = "done" /\ ~p_seen.pinned_terminal)
        => /\ p_result.returned
           /\ p_result.status = "TIMEOUT"

C7_Witness ==
    /\ p_pc = "done"
    /\ p_last.exists /\ p_last.status \in ActiveStatuses
    /\ plat.exists /\ plat.id = p_last.id /\ plat.status \in ActiveStatuses
    /\ ~p_seen.pinned_terminal
    /\ p_now >= MAX_DEPLOYMENT_WAIT
    /\ p_result.status = "TIMEOUT"

\* C8: a TIMEOUT returned while a deployment is pinned carries the deployment
\* and build logs fetched for that deployment, not a fixed placeholder.
C8_TimeoutCarriesFetchedLogs ==
    (p_pc = "done" /\ p_result.status = "TIMEOUT" /\ p_last.exists)
        => /\ p_result.deployment_logs \in FetchedLogs("deployment", p_last.id)
           /\ p_result.build_logs \in FetchedLogs("build", p_last.id)
           /\ <<"deployment", p_last.id>> \in p_logq
           /\ <<"build", p_last.id>> \in p_logq

\* C9: when the latest deployment changes to another id while the pinned one
\* is still active, and a status query within the wait shows the new one in
\* a terminal status, the poller returns that record and not TIMEOUT.
C9_RepinsToNewDeployment ==
    (p_pc = "done" /\ p_seen.other_terminal)
        => /\ p_result.status # "TIMEOUT"
           /\ p_result.has_id
           /\ p_result.id # p_last.id

(***************************************************************************)
(* Properties of the controller and the store adapter                      *)
(***************************************************************************)
\* C5: when every review says revise with operations and nothing fails, the
\* run makes exactly MAX_ITERATIONS apply-poll-review iterations and ends
\* exhausted; no further commit batch is ever issued.
C5_AlwaysReviseExhausts ==
    /\ (c_pc = "done" /\ h_clean)
          => /\ outcome = "exhausted"
             /\ calls.batches = MAX_ITERATIONS
             /\ calls.polls = MAX_ITERATIONS
             /\ calls.reviews = MAX_ITERATIONS
    /\ h_clean => calls.batches <= MAX_ITERATIONS

C5_Witness ==
    /\ c_pc = "done"
    /\ h_clean
    /\ outcome = "exhausted"
    /\ calls.batches = MAX_ITERATIONS
    /\ calls.proposals = 1

\* C6: whatever the oracle and the adapters do, the iteration index is in
\* 1..MAX_ITERATIONS while the controller applies, waits, polls or reviews,
\* and there are never more than MAX_ITERATIONS commit batches, poller calls
\* or review calls.
C6_IterationBounds ==
    /\ c_pc \in {"generate", "apply", "commit", "syncwait", "poll", "review",
                "reviewing", "decide"}
          => iteration \in 1..MAX_ITERATIONS
    /\ calls.batches <= MAX_ITERATIONS
    /\ calls.polls <= MAX_ITERATIONS
    /\ calls.reviews <= MAX_ITERATIONS

C6_Witness ==
    /\ c_pc = "review"
    /\ iteration = MAX_ITERATIONS
    /\ calls.batches = MAX_ITERATIONS
    /\ calls.polls = MAX_ITERATIONS
    /\ deployment_result.status = "TIMEOUT"

IsWrite(event) == event[1] \in {"put", "delete"}

\* C10: in one iteration every per-file read comes before the first write or
\* delete request, and each file's final content is computed from what the
\* store held when the iteration's batch began.
C10_ReadsBeforeWrites ==
    c_pc = "commit"
        => /\ \A i, j \in 1..Len(io_log) :
                 (i < j /\ IsWrite(io_log[i])) => IsWrite(io_log[j])
           /\ (\E i \in 1..Len(io_log) : IsWrite(io_log[i])) => to_process = <<>>
           /\ \A k \in 1..Len(final_files) :
                 LET entry == final_files[k]
                 IN /\ entry.fetched \in {snapshot[entry.file], Absent}
                    /\ entry.content =
                           apply_operations_to_file(
                               current_content(entry.fetched),
                               ops_of(instructions, entry.file))

C10_Witness ==
    /\ c_pc = "commit"
    /\ Len(final_files) = 2
    /\ uploaded = 2
    /\ Len(io_log) = 4
    /\ \A f \in Files : store[f] # snapshot[f]
    /\ final_files[2].fetched = snapshot[final_files[2].file]
    /\ final_files[2].fetched.exists

\* the write and delete requests of the current batch that name file f
RequestsFor(f) == {i \in 1..Len(io_log) : IsWrite(io_log[i]) /\ io_log[i][2] = f}

\* the batch has handled final_files[k] as the claim C11 says
CommittedAsStated(k) ==
    LET entry == final_files[k]
        reqs == RequestsFor(entry.file)
        sent(method, sha, content) ==
            /\ Cardinality(reqs) = 1
            /\ \A i \in reqs :
                  /\ io_log[i] = <<method, entry.file, sha, content, results[k].success>>
                  /\ results[k].file = entry.file
    IN /\ (entry.content = <<>> /\ entry.fetched.exists)
            => /\ sent("delete", entry.fetched, <<>>)
               /\ results[k].op_desc = "delete"
       /\ (entry.content # <<>> /\ ~entry.fetched.exists)
            => /\ sent("put", Absent, entry.content)
               /\ results[k].op_desc = "create"
       /\ (entry.content # <<>> /\ entry.fetched.exists)
            => /\ sent("put", entry.fetched, entry.content)
               /\ results[k].op_desc = "update"

\* this step is upload_final_files handling one entry of final_files
IsUploadStep == c_pc = "commit" /\ uploaded' = uploaded + 1

\* C11: for each file of a commit batch, empty final content with a fetched
\* digest is sent as one delete carrying that digest, non-empty content
\* without a digest as one create carrying none, non-empty content with a
\* digest as one update carrying it; a request the store rejects gives a
\* failed result for the file, changes nothing and is not sent again.
C11_CommitSemantics ==
    /\ [](c_pc = "commit" =>
             /\ Len(results) = uploaded
             /\ \A k \in 1..uploaded : CommittedAsStated(k))
    /\ [][(/\ IsUploadStep
            /\ upload_request(final_files[uploaded + 1]).method # "none"
            /\ ~store_accepts(upload_request(final_files[uploaded + 1])))
              => /\ ~results'[uploaded + 1].success
                 /\ results'[uploaded + 1].file = final_files[uploaded + 1].file
                 /\ store' = store
                 /\ Len(io_log') = Len(io_log) + 1]_vars

C11_Witness ==
    /\ c_pc = "commit"
    /\ uploaded = 2
    /\ final_files[1].content = <<>> /\ final_files[1].fetched.exists
    /\ results[1] = UploadResult(TRUE, "delete", final_files[1].file)
    /\ final_files[2].content # <<>> /\ ~final_files[2].fetched.exists
    /\ results[2] = UploadResult(FALSE, "create", final_files[2].file)
    /\ store[final_files[2].file].exists

\* C12: the digest sent with an update or a delete is the one the read phase
\* of the same batch fetched for the file, and a request never replaces
\* content other than the content that was read: when another writer has
\* changed the file since the read, the request fails and their content
\* stays.
C12_NoLostUpdate ==
    /\ [](c_pc = "commit" =>
             \A i \in 1..Len(io_log) :
                 IsWrite(io_log[i]) =>
                     \E j \in 1..(i - 1) :
                         io_log[j] = <<"get", io_log[i][2], io_log[i][3]>>)
    /\ [][IsUploadStep =>
             LET entry == final_files[uploaded + 1]
             IN /\ store' # store => store[entry.file] = entry.fetched
                /\ store[entry.file] # entry.fetched
                      => /\ store' = store
                         /\ ~results'[uploaded + 1].success]_vars

C12_Witness ==
    /\ c_pc = "commit"
    /\ writers = 1
    /\ \E i \in 1..Len(io_log) :
          /\ io_log[i][1] = "put"
          /\ io_log[i][3].exists
          /\ io_log[i][5] = FALSE
          /\ store[io_log[i][2]] = Present(<<"a">>)
          /\ io_log[i][3] # Present(<<"a">>)
          /\ io_log[i][4] # <<"a">>

HasKind(ops, kind) == \E i \in 1..Len(ops) : ops[i].operation = kind

\* C13: a file that exists in the store gets a delete request in a batch
\* exactly when its operations contain a Delete and no Write; a Write of
\* empty content and line deletions that remove every line do not remove it.
C13_DeleteOnlyOnDeleteIntent ==
    c_pc = "commit" =>
        \A k \in 1..uploaded :
            LET entry == final_files[k]
            IN (snapshot[entry.file].exists /\ entry.fetched.exists)
                   => ((\E i \in RequestsFor(entry.file) : io_log[i][1] = "delete")
                          <=> (/\ HasKind(entry.operations, "delete")
                               /\ ~HasKind(entry.operations, "write")))

KnownKinds == {"write", "delete", "write_at_line", "delete_at_line"}

\* C14: a file none of whose operations is of a kind the engine applies is
\* left untouched: the batch sends no write, update or delete request for it.
C14_NoOperationNoRequest ==
    c_pc = "commit" =>
        \A k \in 1..uploaded :
            (\A i \in 1..Len(final_files[k].operations) :
                 final_files[k].operations[i].operation \notin KnownKinds)
                => RequestsFor(final_files[k].file) = {}

\* the operation has its kind's keys and a kind the engine knows
WellFormed(op) ==
    /\ has_key(op, "operation") /\ has_key(op, "file")
    /\ op.operation \in KnownKinds
    /\ op.operation = "write" => has_key(op, "content")
    /\ op.operation \in {"write_at_line", "delete_at_line"}
          => has_key(op, "line") /\ has_key(op, "content")

\* a malformed operation together with a valid one
Mixed(ins) ==
    /\ \E i \in 1..Len(ins) : WellFormed(ins[i])
    /\ \E i \in 1..Len(ins) : ~WellFormed(ins[i])

\* C18: an operation set with a malformed operation and valid ones does not
\* stop the run: the malformed operation is dropped, every file is given the
\* result of its valid operations, and the batch goes on to the deployment
\* wait unless a store request itself raises.
C18_MalformedDroppedRunContinues ==
    /\ [](c_pc = "commit" /\ Mixed(instructions) =>
             \A k \in 1..Len(final_files) :
                 final_files[k].content =
                     apply_operations_to_file(
                         current_content(final_files[k].fetched),
                         SelectSeq(final_files[k].operations, WellFormed)))
    /\ [][(c_pc \in {"apply", "commit"} /\ Mixed(instructions) /\ c_pc' = "done")
              => (c_pc = "commit" /\ processing_done)]_vars

\* the first review has returned approved on a first batch that was one
\* Write of a program text for f, absent from the store when the batch
\* began, and on a deployment that reached SUCCESS
HelloWorld(f) ==
    /\ c_pc = "decide" /\ iteration = 1
    /\ review.status = "approved"
    /\ h_first.status = "SUCCESS"
    /\ Len(h_first.instructions) = 1
    /\ WellFormed(h_first.instructions[1])
    /\ h_first.instructions[1].operation = "write"
    /\ h_first.instructions[1].file = f
    /\ h_first.instructions[1].content # <<>>
    /\ ~h_first.snapshot[f].exists

OneOfEach == [batches |-> 1, polls |-> 1, reviews |-> 1, proposals |-> 1]

\* C15: when the store does not hold hello.py, the oracle proposes one Write
\* of its text, the deployment reaches SUCCESS and the review approves, the
\* run has sent exactly one store request, a create without digest carrying
\* the Write's content, has called the oracle, the poller and the review once
\* each, and ends approved in iteration 1, not exhausted.
C15_HelloWorldApprovedAtOnce ==
    [][\A f \in Files :
          HelloWorld(f) =>
              LET writes == SelectSeq(h_first.io_log, IsWrite)
              IN /\ Len(writes) = 1
                 /\ SubSeq(writes[1], 1, 4) =
                        <<"put", f, Absent, h_first.instructions[1].content>>
                 /\ calls = OneOfEach
                 /\ calls' = calls
                 /\ store' = store
                 /\ c_pc' = "done"
                 /\ outcome' = "approved"
                 /\ iteration' = 1]_vars

C15_Witness ==
    /\ HelloWorld("f2")
    /\ calls = OneOfEach
    /\ writers = 0
    /\ store["f2"] = Present(h_first.instructions[1].content)

\* the batch is a revision made of DeleteAtLine operations only, each aimed
\* at a line the stored file has and carrying a text that is not there
NoProgressRevision ==
    /\ iteration > 1
    /\ instructions # <<>>
    /\ \A i \in 1..Len(instructions) :
          LET op == instructions[i]
          IN /\ WellFormed(op)
             /\ op.operation = "delete_at_line"
             /\ snapshot[op.file].exists
             /\ snapshot[op.file].content # <<>>
             /\ op.line \in 1..Len(split(snapshot[op.file].content))
             /\ ~ExactMatch(split(snapshot[op.file].content), op)

\* C16: a revision of DeleteAtLine operations whose content does not match
\* the line they aim at leaves the stored files as they were: every file is
\* given back its fetched content, no request of the batch changes the store,
\* the batch still goes on to the deployment wait and the next review, and it
\* is one of at most MAX_ITERATIONS batches.
C16_MismatchRevisionChangesNothing ==
    /\ []((c_pc = "commit" /\ NoProgressRevision) =>
             /\ iteration <= MAX_ITERATIONS
             /\ calls.batches <= MAX_ITERATIONS
             /\ writers = 0 => store = snapshot
             /\ \A k \in 1..Len(final_files) :
                   final_files[k].content = current_content(final_files[k].fetched))
    /\ [][(c_pc = "commit" /\ NoProgressRevision /\ IsUploadStep)
              => store' = store]_vars
    /\ [][(c_pc = "commit" /\ NoProgressRevision /\ c_pc' # "commit")
              => \/ c_pc' = "syncwait" /\ uploaded = Len(final_files)
                 \/ processing_done /\ uploaded < Len(final_files)]_vars

C16_Witness ==
    /\ c_pc = "commit"
    /\ NoProgressRevision
    /\ iteration = MAX_ITERATIONS
    /\ uploaded = 1 /\ Len(final_files) = 1
    /\ results[1] = UploadResult(TRUE, "update", "f1")
    /\ store = snapshot

\* C17: a run that ends fatal makes the process exit with a non-zero code.
C17_FatalExitsNonZero ==
    (c_pc = "exited" /\ outcome = "fatal") => exit_code # 0

\* C19: an empty initial proposal ends the run at once as fatal: no batch,
\* no store request, no settle delay, no poll and no review, then or later.
C19_EmptyProposalStops ==
    /\ [][(c_pc = "apply" /\ iteration = 1 /\ instructions = <<>>)
              => /\ c_pc' = "done"
                 /\ outcome' = "fatal"
                 /\ calls = [NoCalls EXCEPT !.proposals = 1]
                 /\ calls' = calls
                 /\ io_log = <<>> /\ io_log' = <<>>
                 /\ store' = store]_vars
    /\ [][(c_pc \in {"done", "exited"})
              => /\ c_pc' \in {"done", "exited"}
                 /\ calls' = calls
                 /\ io_log' = io_log
                 /\ store' = store]_vars

C19_Witness ==
    /\ c_pc = "apply"
    /\ iteration = 1
    /\ instructions = <<>>
    /\ calls = [NoCalls EXCEPT !.proposals = 1]

\* C20: when a review returns approved, in any iteration up to and including
\* MAX_ITERATIONS, the run ends approved and not exhausted, and from then on
\* makes no commit, no poll and no oracle call.
C20_ApprovedIsFinal ==
    /\ [][(c_pc = "decide" /\ review.status = "approved")
              => /\ c_pc' = "done"
                 /\ outcome' = "approved"
                 /\ iteration' = iteration
                 /\ calls' = calls
                 /\ store' = store]_vars
    /\ [][outcome = "approved"
              => /\ outcome' = "approved"
                 /\ c_pc' \in {"done", "exited"}
                 /\ calls' = calls
                 /\ store' = store]_vars

C20_Witness ==
    /\ c_pc = "exited"
    /\ outcome = "approved"
    /\ iteration = MAX_ITERATIONS
    /\ calls.reviews = MAX_ITERATIONS
    /\ calls.batches = MAX_ITERATIONS

\* the review has returned revise with no operations: an empty list, no
\* "instructions" key, or the verdict that stands for a response that did not
\* parse
EmptyRevision ==
    /\ c_pc = "decide"
    /\ review.status = "revise"
    /\ verdict_instructions(review) = <<>>

\* C21: when a review returns revise with an empty or missing operation set,
\* the run ends fatal, not exhausted, with the iteration index as it was, and
\* makes no commit, no poll and no oracle call from then on.
C21_EmptyRevisionStops ==
    /\ [][EmptyRevision
              => /\ c_pc' = "done"
                 /\ outcome' = "fatal"
                 /\ iteration' = iteration
                 /\ calls' = calls
                 /\ store' = store]_vars
    /\ [][(outcome = "fatal")
              => /\ outcome' = "fatal"
                 /\ c_pc' \in {"done", "exited"}
                 /\ iteration' = iteration
                 /\ calls' = calls
                 /\ store' = store]_vars

C21_Witness ==
    /\ EmptyRevision
    /\ ~has_key(review, "instructions")
    /\ iteration = MAX_ITERATIONS
    /\ calls.reviews = MAX_ITERATIONS

\* C22: an oracle response that does not parse never crashes the controller:
\* an unparseable proposal becomes the empty operation set and an unparseable
\* review becomes revise with a reason and no operations; either way the next
\* step ends the run as fatal by the controller's own break, nothing further
\* is committed or called, and run returns to main, which exits normally.
C22_UnparseableEndsRun ==
    /\ [](~h_parsed =>
             \/ c_pc = "apply" /\ iteration = 1 /\ instructions = <<>>
             \/ c_pc = "decide" /\ review = FailedToParse)
    /\ [][(~h_parsed)
              => /\ c_pc' = "done"
                 /\ outcome' = "fatal"
                 /\ calls' = calls
                 /\ store' = store]_vars
    /\ [][(c_pc = "done" /\ outcome = "fatal")
              => c_pc' = "exited" /\ exit_code' = 0]_vars

C22_Witness ==
    /\ c_pc = "decide"
    /\ ~h_parsed
    /\ iteration > 1
    /\ review.reason = "Failed to parse response"

\* C23: the oracle is asked for a proposal at most once in a run, and in
\* iteration 1; a later iteration comes from a revise verdict, whose operation
\* set becomes the revision, and the batch of that iteration is made of
\* exactly that set.
C23_RevisionIsWhatIsApplied ==
    /\ [](calls.proposals <= 1 /\ (c_pc = "generate" => iteration = 1))
    /\ [][(calls.proposals' # calls.proposals)
              => iteration = 1 /\ calls.proposals = 0]_vars
    /\ [][(iteration' # iteration)
              => /\ c_pc = "decide" /\ review.status = "revise"
                 /\ iteration' = iteration + 1
                 /\ revision_instructions' = verdict_instructions(review)]_vars
    /\ []((iteration >= 2 /\ c_pc \in {"loop", "apply", "commit"})
             => /\ revision_instructions # <<>>
                /\ c_pc # "loop" => instructions = revision_instructions
                /\ c_pc = "commit" =>
                       \A k \in 1..Len(final_files) :
                           final_files[k].operations =
                               ops_of(revision_instructions, final_files[k].file))

C23_Witness ==
    /\ iteration = 3
    /\ c_pc = "commit"
    /\ uploaded = 2
    /\ instructions = revision_instructions
    /\ calls.proposals = 1

\* upload_final_files has handled every entry of final_files
BatchUploaded ==
    /\ c_pc = "commit"
    /\ processing_done
    /\ uploaded = Len(final_files)

\* C24: a commit the store rejects (a stale digest, a create of a file that
\* exists, any other refusal) is recorded as a failed result for its file and
\* changes nothing; whatever the results of a batch, all failed included, the
\* batch returns and the iteration goes on to the settle delay, the poll and
\* the review.
C24_RejectedCommitsDoNotBlock ==
    /\ [][IsUploadStep
              => LET request == upload_request(final_files[uploaded + 1])
                 IN /\ c_pc' = "commit"
                    /\ (request.method = "none" \/ ~store_accepts(request))
                          => /\ store' = store
                             /\ Len(results') = Len(results) + 1
                             /\ SubSeq(results', 1, Len(results)) = results
                             /\ ~results'[Len(results')].success
                             /\ results'[Len(results')].file = request.file]_vars
    /\ [](BatchUploaded => Len(results) = Len(final_files) /\ ENABLED CommitDone)
    /\ [][BatchUploaded
              => c_pc' = "syncwait" /\ results' = results]_vars
    /\ [](c_pc = "syncwait" => ENABLED SyncWait)
    /\ [][(c_pc = "syncwait")
              => c_pc' = "poll" /\ iteration' = iteration]_vars
    /\ [][(c_pc = "poll")
              => /\ calls'.polls = calls.polls + 1
                 /\ c_pc' = "review" \/ outcome' = "fatal"]_vars
    /\ [][(c_pc = "review")
              => /\ iteration' = iteration
                 /\ \/ c_pc' = "reviewing" /\ calls'.reviews = calls.reviews + 1
                    \/ outcome' = "fatal"]_vars

\* both commits of a batch were refused, one of them for a stale digest
C24_Witness ==
    /\ c_pc = "syncwait"
    /\ Len(results) = 2
    /\ \A k \in 1..2 : ~results[k].success
    /\ writers = 1

\* the poll of this iteration returned TIMEOUT
TimedOut == deployment_result.returned /\ deployment_result.status = "TIMEOUT"

\* C25: a TIMEOUT result of the poller does not end the run: the review of
\* the same iteration is called with status TIMEOUT and the logs of the
\* result, and what the run does next is decided by the verdict alone.
C25_TimeoutIsReviewed ==
    /\ [][(c_pc = "poll" /\ TimedOut')
              => /\ c_pc' = "review"
                 /\ outcome' = "running"
                 /\ iteration' = iteration]_vars
    /\ []((c_pc = "review" /\ TimedOut) => ENABLED ReviewCall)
    /\ [][(c_pc = "review" /\ TimedOut /\ c_pc' # "done")
              => /\ c_pc' = "reviewing"
                 /\ iteration' = iteration
                 /\ review_args' =
                        [deployment_status |-> "TIMEOUT",
                         deployment_logs |-> deployment_result.deployment_logs,
                         build_logs |-> deployment_result.build_logs]]_vars
    /\ [][(c_pc = "reviewing" /\ c_pc' # "done")
              => c_pc' = "decide" /\ iteration' = iteration]_vars
    /\ [][(c_pc = "decide")
              => IF review.status = "approved"
                 THEN c_pc' = "done" /\ outcome' = "approved"
                 ELSE IF review.status = "revise"
                         /\ verdict_instructions(review) # <<>>
                 THEN /\ c_pc' = "loop" /\ outcome' = "running"
                      /\ iteration' = iteration + 1
                 ELSE c_pc' = "done" /\ outcome' = "fatal"]_vars

\* the first poll timed out and the review asks for a revision
C25_Witness ==
    /\ c_pc = "decide"
    /\ h_first.status = "TIMEOUT"
    /\ review.status = "revise"
    /\ verdict_instructions(review) # <<>>

\* this step asks the platform for the latest deployment from inside one of
\* the two loops
IsLoopQuery ==
    /\ p_pc \in {"search", "track"}
    /\ <<p_pc, p_now, p_last, p_result, p_logq, p_seen>>'
          # <<p_pc, p_now, p_last, p_result, p_logq, p_seen>>
    /\ ~(p_pc' = "done" /\ p_result'.status = "TIMEOUT")

Unset(e) == {var \in RequiredNames : ~e[var].present \/ e[var].value = ""}

\* C27: whichever of the six required settings are unset, constructing the
\* controller fails with one error whose message names exactly the unset
\* settings, each once; this happens before any oracle, store or platform
\* call and before iteration 1, and a run only begins when all six are set.
C27_ValidationNamesAllMissing ==
    /\ [][(c_pc = "main")
              => IF Unset(env) = {}
                 THEN c_pc' = "loop" /\ error_msg' = NoError
                 ELSE /\ c_pc' = "exited"
                      /\ error_msg'.raised
                      /\ {error_msg'.names[i] : i \in 1..Len(error_msg'.names)}
                             = Unset(env)
                      /\ Len(error_msg'.names) = Cardinality(Unset(env))]_vars
    /\ [](error_msg.raised
             => /\ c_pc = "exited" /\ outcome = "unconfigured"
                /\ iteration = 1
                /\ calls = NoCalls
                /\ io_log = <<>>
                /\ store = snapshot /\ writers = 0)
    /\ []((c_pc # "main" /\ ~error_msg.raised) => Unset(env) = {})
    /\ [][error_msg.raised => error_msg' = error_msg]_vars

C27_Witness ==
    /\ c_pc = "exited"
    /\ ~env["DEEPSEEK_API_KEY"].present
    /\ env["GITHUB_TOKEN"] = Value("")
    /\ env["GITHUB_REPO"] = Value("x")
    /\ error_msg.raised
    /\ error_msg.names =
           <<"DEEPSEEK_API_KEY", "GITHUB_TOKEN", "RAILWAY_TARGET_PROJECT_ID">>

\* C28: while jobs run concurrently, the log buffer of each job holds only
\* records its own run emitted, and two jobs never have the same registry
\* entry.
C28_JobsIsolated ==
    /\ \A t \in Threads :
          j_id[t] \in DOMAIN jobs
              => \A i \in 1..Len(jobs[j_id[t]].logs) :
                    jobs[j_id[t]].logs[i].thread = t
    /\ \A t1, t2 \in Threads :
          (t1 # t2 /\ j_id[t1] # 0) => j_id[t1] # j_id[t2]

\* C29: once a cancellation signal has been raised during a run, the next
\* step of the controller is its own end of the run, as fatal, and nothing is
\* committed any more.
C29_CancelEndsFatal ==
    [][(signal = "pending" /\ Running)
          => /\ c_pc' = "done"
             /\ outcome' = "fatal"
             /\ store' = store
             /\ calls' = calls]_vars

\* the line operations in the order the loop takes them, and the lines the
\* k-th of them is applied to
Sorted == all_line_ops(e_ops)
Found(k) == apply_line_ops(e_lines, SubSeq(Sorted, 1, k - 1))

\* the last line an operation reaches: its own line for an insert, the end
\* of its span for a delete
Reach(op) ==
    IF op.operation = "delete_at_line"
    THEN op.line + Len(split(op.content)) - 1
    ELSE op.line

\* what an operation addresses in lines: whether its line number is accepted,
\* and the span a delete inspects or the line an insert is spliced before
\* (none when it appends)
Addressed(lines, op) ==
    LET accepted == IF op.operation = "delete_at_line"
                    THEN op.line >= 1 /\ Reach(op) <= Len(lines)
                    ELSE op.line >= 1 /\ op.line <= Len(lines) + 1
    IN [accepted |-> accepted,
        lines |-> IF accepted
                  THEN SubSeq(lines, op.line,
                              IF Reach(op) <= Len(lines) THEN Reach(op)
                              ELSE Len(lines))
                  ELSE <<>>]

\* no two operations share a line number and no delete span reaches the
\* line of a higher-numbered operation
Apart(ops) ==
    \A i, j \in 1..Len(ops) :
        i # j => /\ ops[i].line # ops[j].line
                 /\ ops[i].line < ops[j].line => Reach(ops[i]) < ops[j].line

\* C30 as stated: with only InsertAtLine and DeleteAtLine operations, spans
\* that reach a higher-numbered operation and shared line numbers included,
\* every operation addresses, in the lines it is applied to, the lines it
\* would address in the original content.
C30_EveryOperationKeepsItsAim ==
    (e_pc = "applied" /\ OnlyLineOps(e_ops))
        => \A k \in 1..Len(Sorted) :
               Addressed(Found(k), Sorted[k]) = Addressed(e_lines, Sorted[k])

\* C30 as amended: it does so when the line numbers are pairwise distinct
\* and no DeleteAtLine span reaches the line of a higher-numbered operation.
C30_ApartOperationsKeepTheirAim ==
    (e_pc = "applied" /\ OnlyLineOps(e_ops) /\ Apart(e_ops))
        => \A k \in 1..Len(Sorted) :
               Addressed(Found(k), Sorted[k]) = Addressed(e_lines, Sorted[k])

\* a two-line delete below an insert, both accepted, the file changed by the
\* insert before the delete is applied
C30_Witness ==
    /\ e_pc = "applied"
    /\ Len(e_ops) = 2 /\ OnlyLineOps(e_ops) /\ Apart(e_ops)
    /\ Sorted[1].operation = "write_at_line"
    /\ Sorted[2].operation = "delete_at_line"
    /\ Reach(Sorted[2]) = Sorted[2].line + 1
    /\ Found(2) # e_lines
    /\ Addressed(e_lines, Sorted[2]).accepted
    /\ Len(split(e_result.content)) < Len(e_lines)

\* the target of a line operation lies outside lines
OutOfRange(lines, op) ==
    IF op.operation = "write_at_line"
    THEN op.line < 1 \/ op.line > Len(lines) + 1
    ELSE op.line < 1 \/ op.line > Len(lines) \/ Reach(op) > Len(lines)

\* ops without its k-th element
Except(ops, k) == SubSeq(ops, 1, k - 1) \o SubSeq(ops, k + 1, Len(ops))

\* C31: a line operation whose target lies outside the file it is applied to
\* leaves the line sequence unchanged, raises nothing, and the result is
\* that of the remaining operations of the file.
C31_OutOfRangeIsSkipped ==
    (e_pc = "applied" /\ OnlyLineOps(e_ops))
        => /\ ~apply_raises(e_ops)
           /\ e_result.done
           /\ \A k \in 1..Len(Sorted) :
                  OutOfRange(Found(k), Sorted[k])
                      => /\ Found(k + 1) = Found(k)
                         /\ e_result.content =
                                join(apply_line_ops(e_lines, Except(Sorted, k)))

\* a delete whose span ends past the last line, next to an operation that
\* changes the file
C31_Witness ==
    /\ e_pc = "applied"
    /\ Len(e_ops) = 2 /\ OnlyLineOps(e_ops)
    /\ \E k \in 1..2 :
           /\ Sorted[k].operation = "delete_at_line"
           /\ Sorted[k].line >= 1 /\ Sorted[k].line <= Len(Found(k))
           /\ Reach(Sorted[k]) > Len(Found(k))
           /\ ~OutOfRange(Found(3 - k), Sorted[3 - k])
    /\ e_result.content # e_content

\* the InsertAtLine operations with line 1, in the order they are applied
InsertsAtOne ==
    SelectSeq(Sorted, LAMBDA op : op.operation = "write_at_line" /\ op.line = 1)

\* C32: for a file absent from the store whose operations are all
\* line-targeted the engine starts from the empty line sequence: every
\* InsertAtLine with line 1 is spliced in, every operation out of range when
\* it is applied changes nothing, and when no delete follows the inserts at
\* line 1 the result is the inserted content.
C32_AbsentFileStartsEmpty ==
    (e_pc = "applied" /\ e_fetched = Absent /\ OnlyLineOps(e_ops))
        => /\ e_lines = <<>>
           /\ \A k \in 1..Len(Sorted) :
                  /\ (Sorted[k].operation = "write_at_line" /\ Sorted[k].line = 1)
                         => Found(k + 1) = split(Sorted[k].content) \o Found(k)
                  /\ OutOfRange(Found(k), Sorted[k]) => Found(k + 1) = Found(k)
                  /\ (Sorted[k].operation = "write_at_line" /\ Sorted[k].line # 1)
                         => OutOfRange(Found(k), Sorted[k])
                  /\ (Sorted[k].operation = "delete_at_line" /\ Sorted[k].line # 1)
                         => OutOfRange(Found(k), Sorted[k])
           /\ (\A k \in 1..Len(Sorted) :
                   Sorted[k].operation = "delete_at_line" => Sorted[k].line # 1)
                  => /\ e_result.content = join(apply_line_ops(<<>>, InsertsAtOne))
                     /\ Len(InsertsAtOne) = 1
                            => e_result.content = InsertsAtOne[1].content

\* an absent file, an insert at line 2 that is skipped and an insert of two
\* lines at line 1 that makes the file
C32_Witness ==
    /\ e_pc = "applied"
    /\ e_fetched = Absent
    /\ Len(e_ops) = 2 /\ OnlyLineOps(e_ops)
    /\ Sorted[1].operation = "write_at_line" /\ Sorted[1].line = 2
    /\ Sorted[2].operation = "write_at_line" /\ Sorted[2].line = 1
    /\ Len(split(Sorted[2].content)) = 2
    /\ e_result.content = Sorted[2].content

\* C33: the deployment record handed to the review is never that of a
\* deployment that was already in a terminal status before the commits of
\* the iteration were made (p_seen.old: the latest deployment, if terminal,
\* when wait_for_deployment_completion is entered).
C33_ReviewedDeploymentIsNew ==
    (p_result.returned /\ p_result.has_id /\ p_seen.old.exists)
        => p_result.id # p_seen.old.id

\* C36: a job is reported with status 'completed' only if the run of its
\* agent ended approved; a run that ended exhausted or fatal is never
\* reported as completed.
C36_CompletedMeansApproved ==
    \A t \in Threads :
        (/\ j_outcome[t] \in {"exhausted", "fatal"}
         /\ \A u \in Threads \ {t} : j_id[u] # j_id[t])
            => jobs[j_id[t]].status # "completed"

\* this step is a commit request raising: the batch is being uploaded, a
\* file is still to be sent, and the batch is left without sending it
IsUploadRaise ==
    /\ c_pc = "commit"
    /\ processing_done
    /\ uploaded < Len(final_files)
    /\ c_pc' # "commit"

\* the run is over and its last batch was left before all files were sent
AfterUploadRaise ==
    /\ c_pc \in {"done", "exited"}
    /\ to_process = <<>>
    /\ uploaded < Len(final_files)

\* the store holds what the accepted request io_log[i] committed
StaysCommitted(i) ==
    store[io_log[i][2]] =
        IF io_log[i][1] = "delete" THEN Absent ELSE Present(io_log[i][4])

\* C37: when a commit request raises in the middle of a batch, the files
\* committed earlier in the batch stay committed, the remaining files are
\* not attempted, and the run ends without a poll or a review for the
\* iteration: nothing is rolled back and nothing is sent again.
C37_RaisedCommitEndsRun ==
    /\ [][IsUploadRaise
             => /\ c_pc' = "done"
                /\ outcome' = "fatal"
                /\ store' = store
                /\ io_log' = io_log
                /\ uploaded' = uploaded
                /\ calls' = calls]_vars
    /\ [](AfterUploadRaise
             => /\ \A i \in 1..Len(io_log) :
                       (IsWrite(io_log[i]) /\ io_log[i][5]) => StaysCommitted(i)
                /\ \A k \in (uploaded + 1)..Len(final_files) :
                       RequestsFor(final_files[k].file) = {}
                /\ calls.polls = iteration - 1
                /\ calls.reviews = iteration - 1)
    /\ [][AfterUploadRaise
             => /\ AfterUploadRaise'
                /\ store' = store
                /\ io_log' = io_log
                /\ calls' = calls]_vars

\* the first of two files was committed, the request for the second raised,
\* and the process has exited without a poll
C37_Witness ==
    /\ c_pc = "exited"
    /\ outcome = "fatal"
    /\ to_process = <<>>
    /\ Len(final_files) = 2 /\ uploaded = 1
    /\ \E i \in 1..Len(io_log) : IsWrite(io_log[i]) /\ io_log[i][5]
    /\ store[final_files[1].file] # snapshot[final_files[1].file]
    /\ store[final_files[2].file] = snapshot[final_files[2].file]
    /\ calls.polls = 0 /\ calls.reviews = 0

\* the operations of the current batch that name file f
NamedBy(f) == {i \in 1..Len(instructions) : instructions[i].file = f}

\* C34: within one batch at most one write or delete request is issued per
\* file the operation set names, however many operations name it, none for
\* a file it does not name, and a request that failed is not sent again.
C34_OneRequestPerNamedFile ==
    c_pc = "commit"
        => /\ \A f \in Files :
                  /\ Cardinality(RequestsFor(f)) <= 1
                  /\ NamedBy(f) = {} => RequestsFor(f) = {}
           /\ \A i \in 1..Len(io_log) :
                  IsWrite(io_log[i]) => io_log[i][2] \in Files
           /\ calls.batches <= iteration

\* two operations on one file, its single request failed, the batch over,
\* the other file not requested
C34_Witness ==
    /\ c_pc = "commit"
    /\ to_process = <<>> /\ uploaded = Len(final_files)
    /\ \E f \in Files :
           /\ Cardinality(NamedBy(f)) = 2
           /\ Cardinality(RequestsFor(f)) = 1
           /\ \A i \in RequestsFor(f) : ~io_log[i][5]
           /\ \A g \in Files \ {f} : RequestsFor(g) = {}

\* lines without the span a DeleteAtLine names
WithoutSpan(lines, op) ==
    SubSeq(lines, 1, op.line - 1) \o SubSeq(lines, Reach(op) + 1, Len(lines))

\* C35: an InsertAtLine is applied before a DeleteAtLine of the same line
\* number whatever their order in the input, so the delete compares its
\* content with the lines the insert has just put at that number.
C35_InsertBeforeDeleteAtSameLine ==
    (e_pc = "applied" /\ OnlyLineOps(e_ops))
        => \A i, j \in 1..Len(Sorted) :
               (/\ Sorted[i].line = Sorted[j].line
                /\ Sorted[i].operation = "write_at_line"
                /\ Sorted[j].operation = "delete_at_line")
                   => /\ i < j
                      /\ (Len(Sorted) = 2 /\ ~OutOfRange(e_lines, Sorted[i]))
                             => /\ Found(j) = SubSeq(e_lines, 1, Sorted[i].line - 1)
                                                  \o split(Sorted[i].content)
                                                  \o SubSeq(e_lines, Sorted[i].line,
                                                            Len(e_lines))
                                /\ e_result.content =
                                       join(IF ExactMatch(Found(j), Sorted[j])
                                            THEN WithoutSpan(Found(j), Sorted[j])
                                            ELSE Found(j))
                                /\ \A r \in Reordered(e_ops) :
                                       apply_operations_to_file(e_content, r)
                                           = e_result.content

\* the delete comes first in the input and names a line the file does not
\* have at that number; it removes the line the insert has put there
C35_Witness ==
    /\ e_pc = "applied"
    /\ Len(e_ops) = 2
    /\ e_ops[1].operation = "delete_at_line"
    /\ e_ops[2].operation = "write_at_line"
    /\ e_ops[1].line = e_ops[2].line
    /\ Len(e_lines) >= 1
    /\ ~ExactMatch(e_lines, e_ops[1])
    /\ e_ops[1].content = e_ops[2].content
    /\ ~OutOfRange(e_lines, e_ops[2])
    /\ e_result.content = e_content

====
